---- MODULE Spec2Model ----
(***************************************************************************)
(* Model of the API client of frontend-id-transportes                      *)
(* (src/src/services/api.ts): the session storage, the token validity      *)
(* check, the auth header, the generic request() call and the methods      *)
(* built on it; and of the supervisor dashboard's driver-status polling    *)
(* (src/src/pages/dashboard/DriverForm.tsx).                               *)
(*                                                                         *)
(* Encoding of JavaScript values.  Every value is a record with a tag t:   *)
(*   [t |-> "undefined"], [t |-> "null"], [t |-> "bool", b |-> ...],       *)
(*   [t |-> "num", h |-> ...]   a number, h counts HALVES (h = 5 is 2.5),  *)
(*   [t |-> "str", s |-> ...]   a string, s is its sequence of words,      *)
(*   [t |-> "arr", a |-> ...]   an array, a is a sequence of values,       *)
(*   [t |-> "obj", f |-> ...]   an object, f maps its own keys to values.  *)
(* A string is a sequence of words so that String.prototype.includes is    *)
(* computed (a word is the unit a substring is looked for at).             *)
(* The outcome of a computation that may throw is either                   *)
(*   [threw |-> FALSE, ret |-> value]  or  [threw |-> TRUE, exc |-> e]     *)
(* where e = [isError |-> BOOLEAN, message |-> words].                     *)
(***************************************************************************)
EXTENDS Integers, Sequences, FiniteSets, TLC

VARIABLES storage, now, auth, pc, call, result,
          life, timers, fetches, issued, driversLoading, driverStatuses,
          toasts, ev, form

\* the variables of the API client, those of the dashboard's polling, and
\* those of the user interface as a whole
apiVars == <<storage, now, auth, pc, call, result>>
pollVars == <<life, timers, fetches, issued, driversLoading, driverStatuses,
              toasts, ev>>
dashVars == <<life, timers, fetches, issued, driversLoading, driverStatuses,
              toasts, ev, form>>
vars == <<storage, now, auth, pc, call, result,
          life, timers, fetches, issued, driversLoading, driverStatuses,
          toasts, ev, form>>

----------------------------------------------------------------------------
(* Bounds *)

\* the clock advances in steps of TickMs up to MaxNowMs (milliseconds)
TickMs == 500
MaxNowMs == 3500
\* largest expiry (in seconds) a stored token carries
MaxExpSec == 4

(* Program constants *)

\* Date.now() / 1000
MsPerSec == 1000

----------------------------------------------------------------------------
(* JavaScript values *)

Undefined == [t |-> "undefined"]
JNull == [t |-> "null"]
JBool(b) == [t |-> "bool", b |-> b]
JNumH(h) == [t |-> "num", h |-> h]
JNum(n) == JNumH(2 * n)
JStr(s) == [t |-> "str", s |-> s]
JArr(a) == [t |-> "arr", a |-> a]
JObj(f) == [t |-> "obj", f |-> f]
NoKeys == [k \in {} |-> Undefined]
EmptyObj == JObj(NoKeys)

Ret(v) == [threw |-> FALSE, ret |-> v]
Throw(e) == [threw |-> TRUE, exc |-> e]
JsError(msg) == [isError |-> TRUE, message |-> msg]

\* s.includes(w): the word w occurs in the string s
Includes(s, w) == \E i \in 1..Len(s) : s[i] = w

\* truthiness of a value (the operand of !, ||, &&)
Truthy(v) ==
  CASE v.t = "undefined" -> FALSE
    [] v.t = "null" -> FALSE
    [] v.t = "bool" -> v.b
    [] v.t = "num" -> v.h # 0
    [] v.t = "str" -> v.s # <<>>
    [] OTHER -> TRUE

\* v.k for a value v that is neither null nor undefined
GetProp(v, k) ==
  IF v.t = "obj" /\ k \in DOMAIN v.f THEN v.f[k] ELSE Undefined

\* { ...a, ...b }: own keys of both, later wins
Spread(a, b) ==
  [k \in DOMAIN a \cup DOMAIN b |-> IF k \in DOMAIN b THEN b[k] ELSE a[k]]

\* delete o[k]
DeleteKey(o, k) == [x \in DOMAIN o \ {k} |-> o[x]]

\* the numerals a string can spell, with the number each spells
Numerals == 0..MaxExpSec

NaN == [nan |-> TRUE]
Finite(h) == [nan |-> FALSE, h |-> h]

\* Number(string): the empty string is 0, a numeral is its number, else NaN
StringToNumber(s) ==
  IF s = <<>> THEN Finite(0)
  ELSE IF Len(s) = 1 /\ \E n \in Numerals : s[1] = ToString(n)
       THEN Finite(2 * (CHOOSE n \in Numerals : s[1] = ToString(n)))
       ELSE NaN

\* ToNumber as the relational operators apply it (in halves)
ToNumber(v) ==
  CASE v.t = "undefined" -> NaN
    [] v.t = "null" -> Finite(0)
    [] v.t = "bool" -> Finite(IF v.b THEN 2 ELSE 0)
    [] v.t = "num" -> Finite(v.h)
    [] v.t = "str" -> StringToNumber(v.s)
    [] v.t = "arr" ->
         IF v.a = <<>> THEN Finite(0)
         ELSE IF Len(v.a) = 1 /\ v.a[1].t = "num" THEN Finite(v.a[1].h)
         ELSE IF Len(v.a) = 1 /\ v.a[1].t = "str" THEN StringToNumber(v.a[1].s)
         ELSE NaN
    [] OTHER -> NaN

\* v >= n
JsGreaterOrEqual(v, n) ==
  LET x == ToNumber(v) IN (~x.nan) /\ x.h >= 2 * n

\* v > n for an integer n: false when v converts to NaN
JsGreater(v, n) ==
  LET x == ToNumber(v) IN (~x.nan) /\ x.h > 2 * n

----------------------------------------------------------------------------
(* Tokens.  A token is the string parts[1].parts[2]...: the sequence of    *)
(* its dot-separated segments.  A segment is written in the base64         *)
(* alphabet ("b64"), in the URL-safe one with at least one - or _          *)
(* ("b64url"), or in neither ("bad"); text is what it decodes to: JSON     *)
(* text that parses to v, or text that does not parse.                     *)

BadJson == [json |-> "bad"]
JsonText(v) == [json |-> "ok", v |-> v]
Seg(enc, text) == [enc |-> enc, text |-> text]
BadSeg == [enc |-> "bad"]
OpaqueSeg == Seg("b64url", BadJson)
Token(segs) == [parts |-> segs]
Jwt(seg) == Token(<<OpaqueSeg, seg, OpaqueSeg>>)
Payload(exp) == JObj([sub |-> JNum(1), exp |-> exp])

\* payloads with a numeric exp, whole and fractional seconds
NumericExps == {JNumH(h) : h \in 2..(2 * MaxExpSec)}
WellFormedTokens ==
  {Jwt(Seg("b64", JsonText(Payload(e)))) : e \in NumericExps}
    \cup {Jwt(Seg("b64url", JsonText(Payload(JNum(n))))) : n \in {1, MaxExpSec}}

\* exp present but not a number
OddExps ==
  {JStr(<<ToString(MaxExpSec)>>), JStr(<<"soon">>), JStr(<<>>), JNull,
   JBool(TRUE), JArr(<<JNum(MaxExpSec)>>), EmptyObj}
MalformedTokens ==
  {Token(<<OpaqueSeg>>), Token(<<OpaqueSeg, OpaqueSeg>>),
   Token(<<OpaqueSeg, Seg("b64", JsonText(Payload(JNum(MaxExpSec)))),
           OpaqueSeg, OpaqueSeg>>),
   Jwt(BadSeg), Jwt(Seg("b64", BadJson)), Jwt(Seg("b64url", BadJson)),
   Jwt(Seg("b64", JsonText(JObj([sub |-> JNum(1)])))),
   Jwt(Seg("b64", JsonText(JNull))),
   Jwt(Seg("b64", JsonText(JNum(MaxExpSec)))),
   Jwt(Seg("b64", JsonText(JStr(<<"exp">>))))}
    \cup {Jwt(Seg("b64", JsonText(Payload(e)))) : e \in OddExps}

Tokens == WellFormedTokens \cup MalformedTokens

\* token.split('.')
Split(token) == token.parts

\* seg.replace(/-/g, '+').replace(/_/g, '/')
ToBase64(seg) ==
  IF seg.enc = "b64url" THEN Seg("b64", seg.text) ELSE seg

\* atob(seg): throws on a character outside the base64 alphabet
Atob(seg) ==
  IF seg.enc = "b64" THEN Ret(seg.text)
  ELSE Throw(JsError(<<"InvalidCharacterError">>))

\* JSON.parse(text)
JsonParse(text) ==
  IF text.json = "ok" THEN Ret(text.v)
  ELSE Throw(JsError(<<"Unexpected token in JSON">>))

----------------------------------------------------------------------------
(* Session storage (localStorage): a function from the keys present to     *)
(* the strings stored under them.                                          *)

TokenKey == "id_transporte_token"
UserKey == "id_transporte_user"
CompanyKey == "id_transporte_company"
TempTokenKey == "temp_token"
TempUserKey == "temp_user"
SessionKeys == {TokenKey, UserKey, CompanyKey, TempTokenKey, TempUserKey}

\* what the user and company slots hold (serialized JSON, never inspected)
Blob == [blob |-> "json"]

\* localStorage.getItem(k): the stored string, or null
getItem(st, k) == IF k \in DOMAIN st THEN st[k] ELSE JNull
\* localStorage.removeItem(k)
removeItem(st, k) == [x \in DOMAIN st \ {k} |-> st[x]]
IsNull(v) == v = JNull

\* the two slots read in the other order
ActiveTokenTempFirst(st) ==
  IF ~IsNull(getItem(st, TempTokenKey)) THEN getItem(st, TempTokenKey)
  ELSE getItem(st, TokenKey)

\* let token = getItem(final); if (!token) token = getItem(temp)
ActiveToken(st) ==
  IF ~IsNull(getItem(st, TokenKey)) THEN getItem(st, TokenKey)
  ELSE getItem(st, TempTokenKey)

----------------------------------------------------------------------------
(* ApiService.isTokenValid *)

\* Math.floor(Date.now() / 1000)
CurrentTime(nw) == nw \div MsPerSec

\* the body of the try block of isTokenValid, for a token that is present
TokenCheck(token, nw) ==
  LET parts == Split(token) IN
  IF Len(parts) # 3 THEN Ret(FALSE)
  ELSE LET decoded == Atob(ToBase64(parts[2])) IN
       IF decoded.threw THEN decoded
       ELSE LET parsed == JsonParse(decoded.ret) IN
            IF parsed.threw THEN parsed
            ELSE IF parsed.ret.t = "null"
                 THEN Throw(JsError(<<"Cannot read properties of null">>))
                 ELSE Ret(JsGreater(GetProp(parsed.ret, "exp"), CurrentTime(nw)))

\* a check that accepts the session when either stored token is valid
isTokenValidEitherSlot(st, nw) ==
  Ret(\E k \in {TokenKey, TempTokenKey} :
        k \in DOMAIN st /\ TokenCheck(st[k], nw) = Ret(TRUE))

\* isTokenValid(): no token is false, whatever the try block throws is false
isTokenValid(st, nw) ==
  IF IsNull(ActiveToken(st)) THEN Ret(FALSE)
  ELSE LET r == TokenCheck(ActiveToken(st), nw) IN
       IF r.threw THEN Ret(FALSE) ELSE r

----------------------------------------------------------------------------
(* ApiService.getAuthHeader *)

Lit(s) == [lit |-> s]
Bearer(token) == [bearer |-> token]
NoHeaders == [k \in {} |-> Lit("")]

\* a cleanup that removes the two tokens only
ClearTokensOnly(st) == removeItem(removeItem(st, TokenKey), TempTokenKey)

\* the five removeItem calls
ClearSession(st) ==
  removeItem(removeItem(removeItem(removeItem(removeItem(st,
    TokenKey), UserKey), CompanyKey), TempTokenKey), TempUserKey)

\* a getAuthHeader that cleans up and still returns the header of the
\* token it removed
getAuthHeaderStale(st, nw) ==
  LET token == ActiveToken(st) IN
  IF ~IsNull(token)
  THEN IF ~isTokenValid(st, nw).ret
       THEN [hdr |-> [Authorization |-> Bearer(token)], st |-> ClearSession(st)]
       ELSE [hdr |-> [Authorization |-> Bearer(token)], st |-> st]
  ELSE [hdr |-> NoHeaders, st |-> st]

\* getAuthHeader(): the header object returned and the storage it leaves
getAuthHeader(st, nw) ==
  LET token == ActiveToken(st) IN
  IF ~IsNull(token)
  THEN IF ~isTokenValid(st, nw).ret
       THEN [hdr |-> NoHeaders, st |-> ClearSession(st)]
       ELSE [hdr |-> [Authorization |-> Bearer(token)], st |-> st]
  ELSE [hdr |-> NoHeaders, st |-> st]

----------------------------------------------------------------------------
(* ApiService.request: the values it works on *)

ContentType == "Content-Type"
SecretWord == "secretOrPrivateKey"
FetchWord == "Failed to fetch"
\* the three fixed messages (written here without their diacritics)
ConfigErrorMessage ==
  <<"Erro de configuracao do servidor. Entre em contato com o administrador.">>
ConnectivityMessage ==
  <<"Nao foi possivel conectar ao servidor. Verifique sua conexao.">>
DefaultErrorMessage == <<"Erro de conexao">>

\* { 'Content-Type': 'application/json' }
DefaultHeaders == (ContentType :> Lit("application/json"))

\* header objects a caller passes as options.headers
CallerHeaders ==
  {NoHeaders,
   ("Accept" :> Lit("text/csv")),
   (ContentType :> Lit("text/plain")),
   ("Authorization" :> Lit("Basic caller"))}

\* the RequestInit objects a caller passes: a body or none, with or without
\* a headers key
BodyKinds == {"json", "formdata"}
BodyOf(kind) == [kind |-> kind]
OptionsSet ==
  {[method |-> Lit("GET")]}
    \cup {[method |-> Lit("POST"), body |-> BodyOf(b)] : b \in BodyKinds}
    \cup {[method |-> Lit("GET"), headers |-> h] : h \in CallerHeaders}
    \cup {[method |-> Lit("POST"), body |-> BodyOf(b), headers |-> h] :
            b \in BodyKinds, h \in CallerHeaders}

\* options.headers, undefined when the key is absent; spreading undefined
\* adds no key
OptionHeaders(options) ==
  IF "headers" \in DOMAIN options THEN options.headers ELSE NoHeaders

\* options.body instanceof FormData
IsFormData(options) ==
  "body" \in DOMAIN options /\ options.body.kind = "formdata"

\* values thrown by getBaseUrl, by fetch, or by anything else in the try block
NonError(msg) == [isError |-> FALSE, message |-> msg]
ThrownValues ==
  {JsError(<<FetchWord>>),
   JsError(<<"jwt:", SecretWord, "must have a value">>),
   JsError(<<FetchWord, SecretWord>>),
   JsError(<<"The user aborted a request.">>),
   JsError(<<>>),
   NonError(<<SecretWord>>)}

\* response bodies
ErrorTexts ==
  {<<"Token invalido">>, <<>>,
   <<"jwt:", SecretWord, "must have a value">>,
   <<"upstream:", FetchWord>>}
BodyValues ==
  {JNull, JNum(0), JNum(7), JBool(FALSE), JStr(<<>>), JStr(<<"Not Found">>),
   JArr(<<>>), JArr(<<EmptyObj>>), EmptyObj,
   JObj([message |-> JStr(<<"Token invalido">>)]),
   JObj([error |-> JNum(404)]), JObj([error |-> JNum(0)]),
   JObj([error |-> JNull]),
   JObj([error |-> JObj([code |-> JNum(1)])]),
   JObj([error |-> JArr(<<JStr(<<SecretWord>>)>>)]),
   JObj([error |-> JArr(<<JStr(<<"a">>), JStr(<<"b">>)>>)]),
   JObj([data |-> JArr(<<>>)]),
   JObj([data |-> JObj([data |-> JObj([token |-> JStr(<<"t">>)])])]),
   JObj([success |-> JBool(TRUE), data |-> JArr(<<>>)]),
   JObj([success |-> JBool(FALSE), error |-> JStr(<<"Credenciais invalidas">>)]),
   JObj([success |-> JBool(FALSE)]),
   JObj([success |-> JNull, data |-> JNum(7)])}
    \cup {JObj([error |-> JStr(m)]) : m \in ErrorTexts}
Bodies == {BadJson} \cup {JsonText(v) : v \in BodyValues}
Statuses == {200, 401, 500}
Responses == [status : Statuses, body : Bodies]

\* response.ok
Ok(resp) == resp.status >= 200 /\ resp.status <= 299

----------------------------------------------------------------------------
(* ApiService.request: the try block *)

Nullish(v) == v.t \in {"null", "undefined"}

\* String(v), as new Error(v) applies it to its message; Array.join writes
\* null and undefined elements as the empty string
RECURSIVE JsToString(_), Join(_)
Join(a) ==
  IF a = <<>> THEN <<>>
  ELSE LET head == IF Nullish(a[1]) THEN <<>> ELSE JsToString(a[1]) IN
       IF Len(a) = 1 THEN head ELSE head \o <<",">> \o Join(Tail(a))
JsToString(v) ==
  CASE v.t = "str" -> v.s
    [] v.t = "arr" -> Join(v.a)
    [] v.t = "num" -> <<ToString(v.h \div 2)>>
    [] v.t = "bool" -> IF v.b THEN <<"true">> ELSE <<"false">>
    [] v.t = "obj" -> <<"[object Object]">>
    [] OTHER -> <<v.t>>

\* the headers object built before the call: defaults, then the auth
\* header, then options.headers; Content-Type deleted for a FormData body
BuildHeaders(authHdr, options) ==
  LET merged == Spread(Spread(DefaultHeaders, authHdr), OptionHeaders(options))
  IN IF IsFormData(options) THEN DeleteKey(merged, ContentType) ELSE merged

\* the init object given to fetch: { headers, ...options }
FetchInit(headers, options) == Spread([headers |-> headers], options)

\* await response.json().catch(() => null)
ErrorData(resp) ==
  LET parsed == JsonParse(resp.body) IN
  IF parsed.threw THEN JNull ELSE parsed.ret

\* errorData?.error
ErrorField(errorData) ==
  IF Nullish(errorData) THEN Undefined ELSE GetProp(errorData, "error")

\* errorData?.error?.includes('secretOrPrivateKey')
ErrorIncludesSecret(errorData) ==
  LET e == ErrorField(errorData) IN
  CASE Nullish(e) -> Ret(FALSE)
    [] e.t = "str" -> Ret(Includes(e.s, SecretWord))
    [] e.t = "arr" -> Ret(\E i \in 1..Len(e.a) : e.a[i] = JStr(<<SecretWord>>))
    [] OTHER -> Throw(JsError(<<"errorData?.error?.includes is not a function">>))

\* `HTTP ${response.status}`
HttpStatusMessage(status) == <<"HTTP " \o ToString(status)>>

\* a branch for !response.ok that does not read the body
NotOkBranchStatusOnly(resp) == Throw(JsError(HttpStatusMessage(resp.status)))

\* the branch taken when !response.ok: it always throws
NotOkBranch(resp) ==
  LET errorData == ErrorData(resp)
      inc == ErrorIncludesSecret(errorData)
      e == ErrorField(errorData)
  IN IF inc.threw THEN inc
     ELSE IF inc.ret THEN Throw(JsError(ConfigErrorMessage))
     ELSE IF Truthy(e) THEN Throw(JsError(JsToString(e)))
     ELSE Throw(JsError(HttpStatusMessage(resp.status)))

\* data && typeof data === 'object' && 'success' in data
TypeofObject(v) == v.t \in {"obj", "arr", "null"}
\* k in v, for the key "success": an array has index keys only
HasKey(v, k) == v.t = "obj" /\ k \in DOMAIN v.f
HasSuccessKey(data) ==
  Truthy(data) /\ TypeofObject(data) /\ HasKey(data, "success")

\* a branch for response.ok that wraps every parsed body
OkBranchWrapAlways(resp) ==
  LET parsed == JsonParse(resp.body) IN
  IF parsed.threw THEN parsed
  ELSE Ret(JObj([success |-> JBool(TRUE), data |-> parsed.ret]))

\* the branch taken when response.ok
OkBranch(resp) ==
  LET parsed == JsonParse(resp.body) IN
  IF parsed.threw THEN parsed
  ELSE IF HasSuccessKey(parsed.ret) THEN Ret(parsed.ret)
  ELSE Ret(JObj([success |-> JBool(TRUE), data |-> parsed.ret]))

\* what the try block does with the settled fetch
AfterFetch(outcome) ==
  IF outcome.threw THEN outcome
  ELSE IF ~Ok(outcome.ret) THEN NotOkBranch(outcome.ret)
  ELSE OkBranch(outcome.ret)

----------------------------------------------------------------------------
(* ApiService.request: the catch block *)

FailedEnvelope(msg) == JObj([success |-> JBool(FALSE), error |-> JStr(msg)])

\* the two substring rules tried in the other order
ErrorMessageFetchFirst(e) ==
  IF e.isError
  THEN IF Includes(e.message, FetchWord) THEN ConnectivityMessage
       ELSE IF Includes(e.message, SecretWord) THEN ConfigErrorMessage
       ELSE e.message
  ELSE DefaultErrorMessage

\* the message chosen for a caught value
ErrorMessageFor(e) ==
  IF e.isError
  THEN IF Includes(e.message, SecretWord) THEN ConfigErrorMessage
       ELSE IF Includes(e.message, FetchWord) THEN ConnectivityMessage
       ELSE e.message
  ELSE DefaultErrorMessage

\* a catch block that handles Error instances only
CatchErrorsOnly(r) ==
  IF r.threw /\ r.exc.isError THEN Ret(FailedEnvelope(ErrorMessageFor(r.exc)))
  ELSE r

\* try { ... } catch (error) { return { success: false, error: errorMessage } }
Catch(r) ==
  IF r.threw THEN Ret(FailedEnvelope(ErrorMessageFor(r.exc))) ELSE r

----------------------------------------------------------------------------
(* State.                                                                  *)
(*   storage  the session storage                                          *)
(*   now      Date.now(), in milliseconds                                  *)
(*   auth     the last direct use of isTokenValid or getAuthHeader         *)
(*   pc       where the request() call stands: idle, fetching, done        *)
(*   call     the outgoing call, while fetch is pending                    *)
(*   result   what the last request() call settled with, and on what       *)
(*   life     the dashboard component: init (not yet mounted), mounted,    *)
(*            gone (unmounted)                                             *)
(*   timers   the interval timers that are active, each with its period   *)
(*            and the instant it is next due                               *)
(*   fetches  the calls awaiting their response (loadDriverStatuses calls  *)
(*            of the dashboard, or request() calls running concurrently)   *)
(*   issued   how many of these calls were made                            *)
(*   driversLoading, driverStatuses   the component's two pieces of state  *)
(*   toasts   how many error toasts were fired                             *)
(*   ev       the last step the dashboard took                             *)
(*   form     the driver form: the dialog, the submitting flag, the        *)
(*            values entered, the submission in flight and what the form   *)
(*            has reported                                                 *)
(* The clock starts one second into the epoch: the present is later than   *)
(* the 0 and the 1 that null, false and true convert to.                   *)

NoAuth == [op |-> "none"]
NoCall == [options |-> "none"]
NoResult == [at |-> "none"]
NoEvent == [kind |-> "none"]

\* the driver form's defaultValues, and the form before it is opened:
\* useState(false), nothing submitted, nothing reported
DefaultValues ==
  [name |-> "", username |-> "", email |-> "", password |-> "", cpf |-> "",
   cnh |-> "", phone |-> "", company_id |-> ""]
NoToast == [variant |-> "none"]
FormIdle ==
  [open |-> FALSE, isSubmitting |-> FALSE, values |-> DefaultValues,
   pending |-> FALSE, submits |-> 0, saved |-> 0, toast |-> NoToast,
   step |-> [at |-> "idle"]]

\* the dashboard before it is mounted: useState([]) and useState(false)
DashIdle ==
  /\ life = "init"
  /\ timers = {}
  /\ fetches = {}
  /\ issued = 0
  /\ driversLoading = FALSE
  /\ driverStatuses = <<>>
  /\ toasts = 0
  /\ ev = NoEvent
  /\ form = FormIdle

\* the API client with no call under way
ApiIdle ==
  /\ auth = NoAuth
  /\ pc = "idle"
  /\ call = NoCall
  /\ result = NoResult

Slot(k, vals) == {NoKeys} \cup {(k :> v) : v \in vals}
Storages(tokens) ==
  {a @@ b @@ c @@ d @@ e :
     a \in Slot(TokenKey, tokens), b \in Slot(UserKey, {Blob}),
     c \in Slot(CompanyKey, {Blob}), d \in Slot(TempTokenKey, tokens),
     e \in Slot(TempUserKey, {Blob})}

\* tokens of each kind, for the runs that exercise request()
RequestTokens ==
  {Jwt(Seg("b64", JsonText(Payload(JNum(MaxExpSec))))),
   Jwt(Seg("b64url", JsonText(Payload(JNum(1))))),
   Token(<<OpaqueSeg, OpaqueSeg>>)}

InitRequest ==
  /\ storage \in Storages(RequestTokens)
  /\ now = MsPerSec
  /\ auth = NoAuth
  /\ pc = "idle"
  /\ call = NoCall
  /\ result = NoResult
  /\ DashIdle

InitAuth ==
  /\ storage \in Storages(Tokens)
  /\ now = MsPerSec
  /\ auth = NoAuth
  /\ pc = "idle"
  /\ call = NoCall
  /\ result = NoResult
  /\ DashIdle

\* time passes
Tick ==
  /\ now + TickMs <= MaxNowMs
  /\ now' = now + TickMs
  /\ UNCHANGED <<storage, auth, pc, call, result>>
  /\ UNCHANGED dashVars

\* isTokenValid() applied to the storage and the clock
CallIsTokenValid ==
  /\ auth' = [op |-> "isTokenValid", before |-> storage, at |-> now,
              res |-> isTokenValid(storage, now)]
  /\ UNCHANGED <<storage, now, pc, call, result>>
  /\ UNCHANGED dashVars

\* getAuthHeader() applied to the storage and the clock
CallGetAuthHeader ==
  LET r == getAuthHeader(storage, now) IN
  /\ storage' = r.st
  /\ auth' = [op |-> "getAuthHeader", before |-> storage, at |-> now,
              hdr |-> r.hdr]
  /\ UNCHANGED <<now, pc, call, result>>
  /\ UNCHANGED dashVars

\* request(endpoint, options) up to its first await: getBaseUrl, the
\* headers (getAuthHeader may clear the session), the call to fetch.
\* base is what getBaseUrl does: return, or throw.
RequestStart(options, base) ==
  /\ pc = "idle"
  /\ IF base.threw
     THEN /\ pc' = "done"
          /\ call' = NoCall
          /\ result' = [at |-> "getBaseUrl", outcome |-> base, r |-> Catch(base)]
          /\ UNCHANGED storage
     ELSE LET a == getAuthHeader(storage, now)
              headers == BuildHeaders(a.hdr, options)
          IN /\ storage' = a.st
             /\ pc' = "fetching"
             /\ call' = [options |-> options, authHdr |-> a.hdr,
                         headers |-> headers,
                         init |-> FetchInit(headers, options)]
             /\ result' = NoResult
  /\ UNCHANGED <<now, auth>>
  /\ UNCHANGED dashVars

\* request() from the settling of fetch to its return: the status test,
\* the parsing of the body, the envelope, the catch block.  The awaits on
\* response.json() read nothing but the response, so they are not split.
RequestSettle(outcome) ==
  /\ pc = "fetching"
  /\ pc' = "done"
  /\ call' = NoCall
  /\ result' = [at |-> "fetch", outcome |-> outcome,
                r |-> Catch(AfterFetch(outcome))]
  /\ UNCHANGED <<storage, now, auth>>
  /\ UNCHANGED dashVars

\* the caller that awaited request() takes the envelope
RequestReturn ==
  /\ pc = "done"
  /\ pc' = "idle"
  /\ result' = NoResult
  /\ UNCHANGED <<storage, now, auth, call>>
  /\ UNCHANGED dashVars

BaseUrlOutcomes == {Ret(Lit("http://localhost"))} \cup {Throw(e) : e \in ThrownValues}
FetchOutcomes == {Ret(resp) : resp \in Responses} \cup {Throw(e) : e \in ThrownValues}

Next ==
  \/ Tick
  \/ \E options \in OptionsSet, base \in BaseUrlOutcomes : RequestStart(options, base)
  \/ \E outcome \in FetchOutcomes : RequestSettle(outcome)
  \/ RequestReturn

Spec == InitRequest /\ [][Next]_vars

NextAuth ==
  \/ Tick
  \/ CallIsTokenValid
  \/ CallGetAuthHeader

SpecAuth == InitAuth /\ [][NextAuth]_vars

----------------------------------------------------------------------------
(* What the properties are stated with *)

\* the envelope shapes
IsEnvelope(v) == v.t = "obj" /\ "success" \in DOMAIN v.f
IsFailedEnvelope(v) ==
  /\ v.t = "obj"
  /\ DOMAIN v.f = {"success", "error"}
  /\ v.f.success = JBool(FALSE)
  /\ v.f.error.t = "str"

\* the request settled on one of the failures: getBaseUrl or fetch threw,
\* the status is not 2xx, or the body of a 2xx response is not JSON
FailurePath(res) ==
  \/ res.outcome.threw
  \/ res.at = "fetch" /\ ~Ok(res.outcome.ret)
  \/ res.at = "fetch" /\ res.outcome.ret.body = BadJson

\* floor(now / 1000), by its defining inequalities
FloorSeconds(nw) ==
  CHOOSE k \in 0..nw : k * MsPerSec <= nw /\ nw < (k + 1) * MsPerSec

\* the expiry of a well-formed token, in halves of a second
ExpHalves(token) == token.parts[2].text.v.f.exp.h

\* a token that is well formed and not yet expired
Unexpired(token, nw) ==
  token \in WellFormedTokens /\ ExpHalves(token) > 2 * FloorSeconds(nw)

\* the slot the spec calls active: final if present, else temporary
SlotToken(st) ==
  IF TokenKey \in DOMAIN st THEN st[TokenKey]
  ELSE IF TempTokenKey \in DOMAIN st THEN st[TempTokenKey]
  ELSE JNull

----------------------------------------------------------------------------
(* C1 *)

\* C1: request() never throws: whatever getBaseUrl, fetch, the status and
\* the body do, the call returns an envelope, and on every failure path
\* the envelope is { success: false, error: <string> }.
C1_RequestNeverThrows ==
  pc = "done" =>
    /\ ~result.r.threw
    /\ IsEnvelope(result.r.ret)
    /\ FailurePath(result) => IsFailedEnvelope(result.r.ret)

\* a value that is not an Error was thrown and an envelope came back
C1_Witness ==
  /\ pc = "done"
  /\ result.outcome.threw
  /\ ~result.outcome.exc.isError
  /\ result.r = Ret(FailedEnvelope(DefaultErrorMessage))

----------------------------------------------------------------------------
(* C2 *)

\* a well-formed token whose exp is at or before the current second
Expired(token, nw) ==
  token \in WellFormedTokens /\ ExpHalves(token) <= 2 * FloorSeconds(nw)

\* only a final token is stored, and it is expired or the validity check
\* rejects it
OnlyInvalidFinal(st, nw) ==
  /\ TokenKey \in DOMAIN st
  /\ TempTokenKey \notin DOMAIN st
  /\ Expired(st[TokenKey], nw) \/ ~isTokenValid(st, nw).ret

----------------------------------------------------------------------------
(* C3 *)

\* C3: the validity check fails closed: on every malformed token (segment
\* count other than 3, undecodable second segment, unparsable payload,
\* missing or non-numeric exp) it returns false and does not throw.
C3_MalformedIsInvalid ==
  (auth.op = "isTokenValid" /\ SlotToken(auth.before) \in MalformedTokens) =>
    auth.res = Ret(FALSE)

----------------------------------------------------------------------------
(* C4 *)

\* C4: on a well-formed token the validity check returns true exactly when
\* exp is greater than floor(now in seconds); exp equal to it is false.
C4_ValidIffExpAfterNow ==
  (auth.op = "isTokenValid" /\ SlotToken(auth.before) \in WellFormedTokens) =>
    auth.res = Ret(ExpHalves(SlotToken(auth.before)) > 2 * FloorSeconds(auth.at))

\* the boundary: exp is the current second and the check said false
C4_Witness ==
  /\ auth.op = "isTokenValid"
  /\ SlotToken(auth.before) \in WellFormedTokens
  /\ ExpHalves(SlotToken(auth.before)) = 2 * FloorSeconds(auth.at)
  /\ auth.res = Ret(FALSE)

----------------------------------------------------------------------------
(* C5 *)

\* C5: the active token, the one used for authentication, is the final one
\* when the final slot is present, else the temporary one, else none: the
\* header is empty when neither slot is present or the active token fails
\* the check, and otherwise carries exactly that token as its bearer token.
C5_BearerIsActiveToken ==
  auth.op = "getAuthHeader" =>
    LET token == SlotToken(auth.before) IN
    IF ~IsNull(token) /\ TokenCheck(token, auth.at) = Ret(TRUE)
    THEN auth.hdr = [Authorization |-> Bearer(token)]
    ELSE auth.hdr = NoHeaders

\* both slots hold a token, the two differ, and the header carries the
\* final one
C5_Witness ==
  /\ auth.op = "getAuthHeader"
  /\ TokenKey \in DOMAIN auth.before
  /\ TempTokenKey \in DOMAIN auth.before
  /\ auth.before[TokenKey] # auth.before[TempTokenKey]
  /\ auth.hdr = [Authorization |-> Bearer(auth.before[TokenKey])]

----------------------------------------------------------------------------
(* C6 *)

\* the later-wins merge of the default, the auth header and the caller's
\* headers
MergedHeaders(c) ==
  Spread(Spread(DefaultHeaders, c.authHdr), OptionHeaders(c.options))

----------------------------------------------------------------------------
(* C7 *)

----------------------------------------------------------------------------
(* C8 *)

\* the response is not 2xx and its JSON body has a string under error
HasErrorString(res) ==
  /\ res.at = "fetch"
  /\ ~res.outcome.threw
  /\ ~Ok(res.outcome.ret)
  /\ res.outcome.ret.body # BadJson
  /\ res.outcome.ret.body.v.t = "obj"
  /\ "error" \in DOMAIN res.outcome.ret.body.v.f
  /\ res.outcome.ret.body.v.f.error.t = "str"
ErrorString(res) == res.outcome.ret.body.v.f.error.s

\* C8: a non-2xx response whose error message contains secretOrPrivateKey
\* resolves to { success: false, error: <the configuration message> }, and
\* the backend's text is not in the envelope.
C8_SecretKeyIsTranslated ==
  (pc = "done" /\ HasErrorString(result)
     /\ Includes(ErrorString(result), SecretWord)) =>
    /\ result.r = Ret(FailedEnvelope(ConfigErrorMessage))
    /\ ~Includes(result.r.ret.f.error.s, SecretWord)

\* a 500 whose body is { error: "jwt: secretOrPrivateKey must have a value" }
C8_Witness ==
  /\ pc = "done"
  /\ HasErrorString(result)
  /\ result.outcome.ret.status = 500
  /\ ErrorString(result) = <<"jwt:", SecretWord, "must have a value">>
  /\ result.r = Ret(FailedEnvelope(ConfigErrorMessage))

----------------------------------------------------------------------------
(* C9 *)

\* the response is not 2xx and its body is not JSON, or is JSON without an
\* error key
NoErrorMessage(res) ==
  /\ res.at = "fetch"
  /\ ~res.outcome.threw
  /\ ~Ok(res.outcome.ret)
  /\ \/ res.outcome.ret.body = BadJson
     \/ ~HasKey(res.outcome.ret.body.v, "error")

\* C9: a non-2xx response outside the secretOrPrivateKey rule resolves to
\* the error message of its JSON body when there is one, and to
\* "HTTP {status}" when the body is not JSON or has no error message.
C9_StructuredErrorOrStatus ==
  pc = "done" =>
    /\ (HasErrorString(result) /\ ErrorString(result) # <<>>
          /\ ~Includes(ErrorString(result), SecretWord)) =>
         result.r = Ret(FailedEnvelope(ErrorString(result)))
    /\ NoErrorMessage(result) =>
         result.r = Ret(FailedEnvelope(HttpStatusMessage(result.outcome.ret.status)))

----------------------------------------------------------------------------
(* C10 *)

\* the response is 2xx and its body is JSON
OkJson(res) ==
  /\ res.at = "fetch"
  /\ ~res.outcome.threw
  /\ Ok(res.outcome.ret)
  /\ res.outcome.ret.body # BadJson
OkBody(res) == res.outcome.ret.body.v

\* C10: a 2xx response whose parsed body is an object with a success key
\* is returned unchanged (success: false included); any other parsed body,
\* null, arrays and primitives included, returns { success: true, data:
\* <parsed body> }.
C10_PassThroughOrWrap ==
  (pc = "done" /\ OkJson(result)) =>
    IF OkBody(result).t = "obj" /\ "success" \in DOMAIN OkBody(result).f
    THEN result.r = Ret(OkBody(result))
    ELSE result.r = Ret(JObj([success |-> JBool(TRUE), data |-> OkBody(result)]))

\* a 2xx body { success: false } came back as it is
C10_Witness ==
  /\ pc = "done"
  /\ OkJson(result)
  /\ OkBody(result) = JObj([success |-> JBool(FALSE)])
  /\ result.r = Ret(JObj([success |-> JBool(FALSE)]))

----------------------------------------------------------------------------
(* C11 *)

\* the ordered rules, applied to an error message
RuleMessage(msg) ==
  IF Includes(msg, SecretWord) THEN ConfigErrorMessage
  ELSE IF Includes(msg, FetchWord) THEN ConnectivityMessage
  ELSE msg

\* C11: when getBaseUrl or fetch throws an error, the envelope error is
\* chosen by the ordered rules on its message: secretOrPrivateKey gives the
\* configuration message, else Failed to fetch gives the connectivity
\* message, else the message itself.
C11_ThrownErrorIsClassified ==
  (pc = "done" /\ result.outcome.threw /\ result.outcome.exc.isError) =>
    result.r = Ret(FailedEnvelope(RuleMessage(result.outcome.exc.message)))

\* fetch threw an error whose message matches both rules and the first won
C11_Witness ==
  /\ pc = "done"
  /\ result.at = "fetch"
  /\ result.outcome = Throw(JsError(<<FetchWord, SecretWord>>))
  /\ result.r = Ret(FailedEnvelope(ConfigErrorMessage))


-----------------------------------------------------------------------------
(* ApiService.getSecureFile: a protected file fetched as a blob URL *)

UnauthenticatedMessage == <<"Usuario nao autenticado.">>
BlobUrl == JStr(<<"blob:http://localhost/file">>)

\* response.statusText
StatusText(status) ==
  CASE status = 200 -> <<"OK">>
    [] status = 401 -> <<"Unauthorized">>
    [] OTHER -> <<"Internal Server Error">>

\* `Falha ao buscar o arquivo: ${response.statusText}`
FileStatusMessage(resp) == <<"Falha ao buscar o arquivo:">> \o StatusText(resp.status)

\* the try block after fetch has settled: a rejection goes to the catch
\* block as it is; a non-2xx response throws errorData?.error or, when
\* that is falsy, the status text; a 2xx response gives the blob's URL
FileAfterFetch(outcome) ==
  IF outcome.threw THEN outcome
  ELSE LET resp == outcome.ret
           e == ErrorField(ErrorData(resp))
       IN IF ~Ok(resp)
          THEN Throw(JsError(IF Truthy(e) THEN JsToString(e)
                             ELSE FileStatusMessage(resp)))
          ELSE Ret(BlobUrl)

\* the catch block as the doc comment describes it: null on error
FileCatchReturnsNull(r) == IF r.threw THEN Ret(JNull) ELSE r

\* the catch block: console.error, then throw error
FileCatch(r) == r

\* getSecureFile up to its call of fetch: without an auth header it
\* throws from the try block and fetch is never called
SecureFileStart ==
  /\ pc = "idle"
  /\ LET a == getAuthHeader(storage, now) IN
       /\ storage' = a.st
       /\ IF DOMAIN a.hdr = {}
          THEN /\ pc' = "done"
               /\ call' = NoCall
               /\ result' = [at |-> "getSecureFile", sent |-> FALSE,
                             r |-> FileCatch(Throw(JsError(UnauthenticatedMessage)))]
          ELSE /\ pc' = "fetching"
               /\ call' = [init |-> [method |-> "GET", headers |-> a.hdr]]
               /\ result' = NoResult
  /\ UNCHANGED <<now, auth>>
  /\ UNCHANGED dashVars

\* getSecureFile from the settling of fetch to its return or throw
SecureFileSettle(outcome) ==
  /\ pc = "fetching"
  /\ pc' = "done"
  /\ call' = NoCall
  /\ result' = [at |-> "getSecureFile", sent |-> TRUE, outcome |-> outcome,
                r |-> FileCatch(FileAfterFetch(outcome))]
  /\ UNCHANGED <<storage, now, auth>>
  /\ UNCHANGED dashVars

NextFile ==
  \/ Tick
  \/ SecureFileStart
  \/ \E outcome \in FetchOutcomes : SecureFileSettle(outcome)
  \/ RequestReturn

SpecFile == InitRequest /\ [][NextFile]_vars

\* a getSecureFile call has finished
FileDone == pc = "done" /\ result.at = "getSecureFile"

\* the call finished on one of the failures: no auth header, a rejected
\* fetch, a non-2xx response
FileFailed ==
  FileDone /\ (~result.sent \/ result.outcome.threw \/ ~Ok(result.outcome.ret))

C13_NullOnError ==
  FileDone =>
    /\ ~result.r.threw
    /\ IF FileFailed THEN result.r.ret = JNull ELSE result.r.ret.t = "str"

-----------------------------------------------------------------------------
(* ApiService.login: request(), then one level of data removed *)

\* how deep the backend nests the session under data keys
MaxNesting == 3

\* the options login passes to request()
LoginOptions == [method |-> Lit("POST"), body |-> BodyOf("json")]

\* the session a successful login carries
Session ==
  JObj([token |-> JStr(<<"t">>), user |-> JObj([id |-> JStr(<<"u1">>)])])

\* v under k levels of { data: ... }
RECURSIVE Nest(_, _)
Nest(k, v) == IF k = 0 THEN v ELSE JObj([data |-> Nest(k - 1, v)])

\* login response bodies: the session nested 0..MaxNesting deep, bare or
\* already inside an envelope, and envelopes whose data.data is falsy
LoginBodyValues ==
  {Nest(k, Session) : k \in 0..MaxNesting}
    \cup {JObj([success |-> JBool(TRUE), data |-> Nest(k, Session)]) :
            k \in 0..MaxNesting}
    \cup {JObj([success |-> JBool(TRUE), data |-> JObj([data |-> JNum(0)])]),
          JObj([success |-> JBool(TRUE), data |-> JStr(<<"ok">>)]),
          JObj([success |-> JStr(<<>>), data |-> Nest(1, Session)])}
LoginOutcomes ==
  FetchOutcomes
    \cup {Ret([status |-> st, body |-> JsonText(v)]) :
            st \in Statuses, v \in LoginBodyValues}

\* an unwrapping that removes a second level where there is one
LoginUnwrapDeep(response) ==
  LET data == GetProp(response, "data")
      inner == GetProp(data, "data")
      deep == GetProp(inner, "data")
  IN IF Truthy(GetProp(response, "success")) /\ Truthy(data) /\ Truthy(inner)
     THEN JObj(Spread(response.f, [data |-> IF Truthy(deep) THEN deep ELSE inner]))
     ELSE response

\* if (response.success && response.data && response.data.data)
\*   return { ...response, data: response.data.data };
\* return response
LoginUnwrap(response) ==
  LET data == GetProp(response, "data")
      inner == GetProp(data, "data")
  IN IF Truthy(GetProp(response, "success")) /\ Truthy(data) /\ Truthy(inner)
     THEN JObj(Spread(response.f, [data |-> inner]))
     ELSE response

\* login calls request() with its own options
LoginStart(base) == RequestStart(LoginOptions, base)

\* login after the await of request(): request() has returned its
\* envelope, login unwraps it and returns
LoginReturn ==
  /\ pc = "done"
  /\ pc' = "returned"
  /\ result' = [at |-> "login", outcome |-> result.outcome,
                response |-> result.r.ret,
                r |-> Ret(LoginUnwrap(result.r.ret))]
  /\ UNCHANGED <<storage, now, auth, call>>
  /\ UNCHANGED dashVars

\* the caller of login takes its result
LoginDone ==
  /\ pc = "returned"
  /\ pc' = "idle"
  /\ result' = NoResult
  /\ UNCHANGED <<storage, now, auth, call>>
  /\ UNCHANGED dashVars

NextLogin ==
  \/ Tick
  \/ \E base \in BaseUrlOutcomes : LoginStart(base)
  \/ \E outcome \in LoginOutcomes : RequestSettle(outcome)
  \/ LoginReturn
  \/ LoginDone

SpecLogin == InitRequest /\ [][NextLogin]_vars

\* login has returned and the backend had answered 2xx with body v
LoginGot(v) ==
  /\ pc = "returned"
  /\ result.at = "login"
  /\ result.outcome = Ret([status |-> 200, body |-> JsonText(v)])

SuccessEnvelope(v) == JObj([success |-> JBool(TRUE), data |-> v])

\* C14, as stated: for the raw 2xx body {data:{data:{token,user}}} login
\* returns {success:true, data:{token,user}}.
C14_LoginRoundTrip ==
  LoginGot(Nest(2, Session)) => result.r = Ret(SuccessEnvelope(Session))

\* C14, amended: login removes exactly one level of nesting after the
\* envelope normalization.  For a raw 2xx body that nests the session k
\* levels deep under data it returns {success:true, data: <the session
\* k-1 levels deep>} (k = 0: the session itself), and the same when the
\* body already is a {success:true, data: ...} envelope with data nested
\* k levels deep: {data:{token,user}} gives {success:true,
\* data:{token,user}}, and {data:{data:{token,user}}} gives
\* {success:true, data:{data:{token,user}}}.
C14_LoginRemovesOneLevel ==
  \A k \in 0..MaxNesting :
    LET less == Nest(IF k = 0 THEN 0 ELSE k - 1, Session) IN
    /\ LoginGot(Nest(k, Session)) =>
         /\ result.response = SuccessEnvelope(Nest(k, Session))
         /\ result.r = Ret(SuccessEnvelope(less))
    /\ LoginGot(SuccessEnvelope(Nest(k, Session))) =>
         result.r = Ret(SuccessEnvelope(less))

C14_Witness ==
  /\ LoginGot(Nest(1, Session))
  /\ result.response = SuccessEnvelope(Nest(1, Session))
  /\ result.r = Ret(SuccessEnvelope(Session))

-----------------------------------------------------------------------------
(* The filterable GET methods: the query string built from the filters.    *)
(* A URL is the sequence of its pieces.                                    *)

\* the methods that build a query string from an optional filter object,
\* with the path each requests
FilterMethods ==
  {"getReceipts", "getTrackingHistory", "getOccurrences",
   "getDeliveryReports", "getDriverPerformanceReports",
   "getClientVolumeReports", "getOccurrencesReports", "getReceiptsReports",
   "getDeliveries", "getDrivers", "getVehicles", "getDriverHistory"}
DriverIds == {"d1"}
PathOf(m, driverId) ==
  CASE m = "getReceipts" -> <<"/api/receipts">>
    [] m = "getOccurrences" -> <<"/api/occurrences">>
    [] m = "getDeliveryReports" -> <<"/api/reports/deliveries">>
    [] m = "getDriverPerformanceReports" -> <<"/api/reports/driver-performance">>
    [] m = "getClientVolumeReports" -> <<"/api/reports/client-volume">>
    [] m = "getOccurrencesReports" -> <<"/api/reports/occurrences">>
    [] m = "getReceiptsReports" -> <<"/api/reports/receipts">>
    [] m = "getDeliveries" -> <<"/api/deliveries">>
    [] m = "getDrivers" -> <<"/api/drivers">>
    [] m = "getVehicles" -> <<"/api/vehicles">>
    [] OTHER -> <<"/api/tracking/drivers/", driverId, "/history">>

\* the filter keys, in the order the caller's object lists them, and the
\* filter arguments: omitted, null, {}, one key, two keys
FilterKeys == <<"driver_id", "status">>
FiltersSet ==
  {Undefined, JNull, EmptyObj,
   JObj([status |-> JStr(<<"PENDING">>)]),
   JObj([status |-> JStr(<<"em transito">>)]),
   JObj([driver_id |-> JStr(<<"d1">>), status |-> JStr(<<"PENDING">>)])}

\* application/x-www-form-urlencoded: a space is written as +
FormEncode(w) == IF w = "em transito" THEN "em+transito" ELSE w

\* new URLSearchParams(filters).toString(): key=value for every own key,
\* joined by &; the empty string for an object with no keys
RECURSIVE SearchParams(_, _)
SearchParams(f, keys) ==
  IF keys = <<>> THEN <<>>
  ELSE LET k == Head(keys)
           rest == SearchParams(f, Tail(keys))
       IN IF k \notin DOMAIN f THEN rest
          ELSE <<FormEncode(k), "=", FormEncode(f[k].s[1])>>
                 \o (IF rest = <<>> THEN <<>> ELSE <<"&">> \o rest)

\* filters ? `?${new URLSearchParams(filters).toString()}` : ''
QueryParams(filters) ==
  IF Truthy(filters) THEN <<"?">> \o SearchParams(filters.f, FilterKeys)
  ELSE <<>>

\* the endpoint the method gives to request()
EndpointOf(m, driverId, filters) == PathOf(m, driverId) \o QueryParams(filters)

\* request() is called without options
NoOptions == NoKeys

\* a filterable GET method up to the call of fetch: the endpoint is built,
\* request() prefixes the base URL, builds the headers and calls fetch
FilteredGet(m, driverId, filters, base) ==
  /\ pc = "idle"
  /\ LET endpoint == EndpointOf(m, driverId, filters) IN
     IF base.threw
     THEN /\ pc' = "done"
          /\ call' = NoCall
          /\ result' = [at |-> "getBaseUrl", outcome |-> base, r |-> Catch(base)]
          /\ UNCHANGED storage
     ELSE LET a == getAuthHeader(storage, now)
              headers == BuildHeaders(a.hdr, NoOptions)
          IN /\ storage' = a.st
             /\ pc' = "fetching"
             /\ call' = [options |-> NoOptions, authHdr |-> a.hdr,
                         headers |-> headers,
                         init |-> FetchInit(headers, NoOptions),
                         method |-> m, filters |-> filters,
                         fullUrl |-> <<base.ret.lit>> \o endpoint]
             /\ result' = NoResult
  /\ UNCHANGED <<now, auth>>
  /\ UNCHANGED dashVars

NextUrl ==
  \/ Tick
  \/ \E m \in FilterMethods, driverId \in DriverIds, filters \in FiltersSet,
        base \in BaseUrlOutcomes : FilteredGet(m, driverId, filters, base)
  \/ \E outcome \in FetchOutcomes : RequestSettle(outcome)
  \/ RequestReturn

SpecUrl == InitRequest /\ [][NextUrl]_vars

\* the URL has a query string
HasQuery(url) == \E i \in 1..Len(url) : url[i] = "?"

\* no filters are given: the argument is omitted or has no keys
NoFilters(filters) == filters = Undefined \/ filters = EmptyObj

\* C15: for every filterable GET method, when no filters are given (the
\* argument omitted, or a filter object with no keys) the requested URL
\* has no '?'.
C15_NoFiltersNoQuery ==
  (pc = "fetching" /\ NoFilters(call.filters)) => ~HasQuery(call.fullUrl)

-----------------------------------------------------------------------------
(* The driver movement classifier (computeMovementStatus of                *)
(* @/lib/driver-status) and the dashboard's use of it.  Speeds are in      *)
(* halves of a km/h, times in milliseconds.                                *)

\* the policy constants: stale after five minutes of silence, moving
\* above 5 km/h
StalenessThresholdMs == 300000
MovementThresholdKmh == 5

\* the instants a poll reads from Date.now(), and the instants the
\* last_update strings spell: 10 s, 5 min and 6 min before the first poll
PollTimes == {600000, 660000}
IsoTimes == {240000, 300000, 590000}

\* an instant written as an ISO string, and Date.parse of a string
IsoString(t) == <<"iso:" \o ToString(t)>>
DateParse(s) ==
  IF \E t \in IsoTimes : s = IsoString(t)
  THEN [nan |-> FALSE, ms |-> CHOOSE t \in IsoTimes : s = IsoString(t)]
  ELSE [nan |-> TRUE]

\* Math.max(0, speed)
ClampSpeed(h) == IF h < 0 THEN 0 ELSE h

\* classify(speed, last_update, now): offline first, then moving, then idle
computeMovementStatus(loc, nw) ==
  LET t == IF loc.last_update.t = "str" THEN DateParse(loc.last_update.s)
           ELSE [nan |-> TRUE]
  IN IF t.nan \/ nw - t.ms > StalenessThresholdMs THEN "offline"
     ELSE IF ClampSpeed(loc.speed.h) > 2 * MovementThresholdKmh THEN "moving"
     ELSE "idle"

\* Number(speedValueRaw ?? 0), 0 when that is not finite
SafeSpeed(speedValueRaw) ==
  LET n == ToNumber(IF Nullish(speedValueRaw) THEN JNum(0) ELSE speedValueRaw)
  IN IF n.nan THEN 0 ELSE n.h

\* typeof lastUpdateValue === 'string' ? lastUpdateValue : null
StringOrNull(v) == IF v.t = "str" THEN v ELSE JNull

\* driver['driver_id'] ?? driver['id'], on raw ?? {}
DriverId(raw) ==
  LET a == GetProp(raw, "driver_id") IN
  IF Nullish(a) THEN GetProp(raw, "id") ELSE a

\* the map callback with a classifier that is told nothing of the recency
NormalizeDriverNoRecency(raw, nw) ==
  LET speedValueRaw == GetProp(raw, "speed")
      safeSpeed == SafeSpeed(speedValueRaw)
      name == GetProp(raw, "driver_name")
  IN [id |-> JsToString(DriverId(raw)),
      name |-> JsToString(IF Nullish(name) THEN JStr(<<"Motorista">>) ELSE name),
      speed |-> safeSpeed,
      lastUpdate |-> StringOrNull(GetProp(raw, "last_update")),
      status |-> computeMovementStatus(
                   [speed |-> IF speedValueRaw.t = "num" THEN speedValueRaw
                              ELSE JNumH(safeSpeed),
                    last_update |-> JNull], nw)]

\* the map callback, for a snapshot that has an id
NormalizeDriver(raw, nw) ==
  LET speedValueRaw == GetProp(raw, "speed")
      safeSpeed == SafeSpeed(speedValueRaw)
      name == GetProp(raw, "driver_name")
  IN [id |-> JsToString(DriverId(raw)),
      name |-> JsToString(IF Nullish(name) THEN JStr(<<"Motorista">>) ELSE name),
      speed |-> safeSpeed,
      lastUpdate |-> StringOrNull(GetProp(raw, "last_update")),
      status |-> computeMovementStatus(
                   [speed |-> IF speedValueRaw.t = "num" THEN speedValueRaw
                              ELSE JNumH(safeSpeed),
                    last_update |-> StringOrNull(GetProp(raw, "last_update"))],
                   nw)]

\* .map(...).filter(Boolean): snapshots without an id are dropped
RECURSIVE MapDrivers(_, _)
MapDrivers(data, nw) ==
  IF data = <<>> THEN <<>>
  ELSE (IF Nullish(DriverId(Head(data))) THEN <<>>
        ELSE <<NormalizeDriver(Head(data), nw)>>)
         \o MapDrivers(Tail(data), nw)

\* a.name.localeCompare(b.name, 'pt-BR') on the names in use
NameRank(name) ==
  CASE name = <<"Ana">> -> 1
    [] name = <<"Bruno">> -> 2
    [] OTHER -> 3

\* .sort(...): stable, by name
RECURSIVE InsertByName(_, _), SortByName(_)
InsertByName(x, sorted) ==
  IF sorted = <<>> THEN <<x>>
  ELSE IF NameRank(Head(sorted).name) >= NameRank(x.name)
       THEN <<x>> \o sorted
       ELSE <<Head(sorted)>> \o InsertByName(x, Tail(sorted))
SortByName(items) ==
  IF items = <<>> THEN <<>>
  ELSE InsertByName(Head(items), SortByName(Tail(items)))

\* the list without the sort
NormalizedUnsorted(data, nw) == MapDrivers(data, nw)

\* the list given to setDriverStatuses, with the one now of the poll
Normalized(data, nw) == SortByName(MapDrivers(data, nw))

\* the render's speed with every value shown as it is stored
DisplaySpeedRaw(driver) == driver.speed

\* driver.speed < 0 ? 0 : driver.speed
DisplaySpeed(driver) == IF driver.speed < 0 THEN 0 ELSE driver.speed

\* toFixed(1) of a number of halves
RECURSIVE ToFixed1(_)
ToFixed1(h) ==
  IF h < 0 THEN "-" \o ToFixed1(0 - h)
  ELSE ToString(h \div 2) \o (IF h % 2 = 0 THEN ".0" ELSE ".5")

\* the speeds the driver list shows: a spinner while loading, else one
\* formatted speed per driver
FormattedSpeeds ==
  IF driversLoading THEN <<>>
  ELSE [i \in 1..Len(driverStatuses) |->
          ToFixed1(DisplaySpeed(driverStatuses[i]))]

\* the location snapshots a response carries: every key present or not
Field(k, vals) == {NoKeys} \cup {(k :> v) : v \in vals}
SpeedValues ==
  {JNull, JNum(-3), JNumH(-1), JNum(0), JNum(5), JNumH(11), JNum(25),
   JStr(<<"4">>), JStr(<<"abc">>)}
LastUpdateValues ==
  {JNull, JStr(<<"ontem">>), JNum(590000)}
    \cup {JStr(IsoString(t)) : t \in IsoTimes}
RawDrivers ==
  {JNull}
    \cup {JObj(a @@ b @@ c @@ d @@ e) :
            a \in Field("driver_id", {JNull, JNum(1)}),
            b \in Field("id", {JStr(<<"d2">>)}),
            c \in Field("driver_name", {JStr(<<"Ana">>)}),
            d \in Field("speed", SpeedValues),
            e \in Field("last_update", LastUpdateValues)}

\* snapshots for the responses that carry two drivers
Snapshot(id, name, speed, t) ==
  JObj([driver_id |-> JNum(id), driver_name |-> JStr(<<name>>),
        speed |-> JNum(speed), last_update |-> JStr(IsoString(t))])
PairDrivers ==
  {JNull, JObj([speed |-> JNum(25)]),
   JObj([id |-> JStr(<<"d2">>), speed |-> JNum(25)])}
    \cup {Snapshot(1, "Bruno", 25, t) : t \in IsoTimes}
    \cup {Snapshot(3, "Ana", 25, t) : t \in IsoTimes}
    \cup {Snapshot(3, "Ana", -3, 590000)}
DataSets ==
  {<<>>} \cup {<<r>> : r \in RawDrivers}
    \cup {<<r1, r2>> : r1 \in PairDrivers, r2 \in PairDrivers}

\* a response with its data has arrived and Date.now() has been read
InitClassify ==
  /\ storage = NoKeys
  /\ now \in PollTimes
  /\ ApiIdle
  /\ life = "init"
  /\ timers = {}
  /\ fetches = {}
  /\ issued = 0
  /\ driversLoading = FALSE
  /\ driverStatuses = <<>>
  /\ toasts = 0
  /\ form = FormIdle
  /\ ev \in {[kind |-> "input", data |-> d] : d \in DataSets}

\* the snapshots are normalised and given to setDriverStatuses
SetDriverStatuses ==
  /\ ev.kind = "input"
  /\ driverStatuses' = Normalized(ev.data, now)
  /\ ev' = [kind |-> "normalized", data |-> ev.data]
  /\ UNCHANGED apiVars
  /\ UNCHANGED <<life, timers, fetches, issued, driversLoading, toasts, form>>

NextClassify == SetDriverStatuses

SpecClassify == InitClassify /\ [][NextClassify]_vars

\* the status the classifier's contract gives a snapshot at instant nw
ExpectedStatus(raw, nw) ==
  LET lu == GetProp(raw, "last_update")
      parsable == lu.t = "str" /\ \E t \in IsoTimes : lu.s = IsoString(t)
      age == nw - (CHOOSE t \in IsoTimes : lu.s = IsoString(t))
  IN IF ~parsable \/ age > StalenessThresholdMs THEN "offline"
     ELSE IF SafeSpeed(GetProp(raw, "speed")) > 2 * MovementThresholdKmh
          THEN "moving"
     ELSE "idle"

\* the last_update string of an instant ago milliseconds before now
Ago(ago) == JStr(IsoString(now - ago))

\* C16: the classifier is total with priority offline > moving > idle:
\* offline when last_update is absent, unparsable or older than the
\* staleness threshold (6 minutes ago is offline) whatever the speed,
\* otherwise moving when the speed exceeds the movement threshold (25
\* km/h is moving), otherwise idle (5 km/h is idle); every driver of a
\* poll gets the status of its snapshot at the one now of that poll.
C16_ClassifierPriority ==
  ev.kind = "normalized" =>
    /\ Len(driverStatuses) =
         Cardinality({j \in 1..Len(ev.data) : ~Nullish(DriverId(ev.data[j]))})
    /\ \A i \in 1..Len(driverStatuses) :
         LET d == driverStatuses[i] IN
         /\ d.status \in {"moving", "idle", "offline"}
         /\ \E j \in 1..Len(ev.data) :
              /\ ~Nullish(DriverId(ev.data[j]))
              /\ d.id = JsToString(DriverId(ev.data[j]))
              /\ d.speed = SafeSpeed(GetProp(ev.data[j], "speed"))
              /\ d.status = ExpectedStatus(ev.data[j], now)
         /\ d.lastUpdate = JNull => d.status = "offline"
         /\ d.lastUpdate = Ago(360000) => d.status = "offline"
         /\ (d.lastUpdate = Ago(10000) /\ d.speed = 2 * 25) => d.status = "moving"
         /\ (d.lastUpdate = Ago(10000) /\ d.speed = 2 * 5) => d.status = "idle"

C16_Witness ==
  /\ ev.kind = "normalized"
  /\ Len(driverStatuses) = 2
  /\ driverStatuses[1].name = <<"Ana">>
  /\ driverStatuses[1].speed = 2 * 25
  /\ driverStatuses[1].lastUpdate = Ago(360000)
  /\ driverStatuses[1].status = "offline"
  /\ driverStatuses[2].name = <<"Bruno">>
  /\ driverStatuses[2].speed = 2 * 25
  /\ driverStatuses[2].lastUpdate = Ago(10000)
  /\ driverStatuses[2].status = "moving"

\* C17: a negative speed is clamped to zero before it is compared with the
\* movement threshold and before it is displayed: a driver with a negative
\* speed is never moving and is shown with 0.0 km/h, and every other
\* driver is shown with its own speed.
C17_NegativeSpeedClamped ==
  ev.kind = "normalized" =>
    /\ Len(FormattedSpeeds) = Len(driverStatuses)
    /\ \A i \in 1..Len(driverStatuses) :
         LET d == driverStatuses[i] IN
         IF d.speed < 0
         THEN d.status # "moving" /\ FormattedSpeeds[i] = "0.0"
         ELSE FormattedSpeeds[i] = ToFixed1(d.speed)

C17_Witness ==
  /\ ev.kind = "normalized"
  /\ Len(driverStatuses) = 1
  /\ driverStatuses[1].speed = 2 * (0 - 3)
  /\ driverStatuses[1].lastUpdate = Ago(10000)
  /\ driverStatuses[1].status = "idle"
  /\ FormattedSpeeds = <<"0.0">>

-----------------------------------------------------------------------------
(* SupervisorDashboard: the polling of the driver statuses.  One mount of  *)
(* the component: init, mounted, gone.                                     *)

\* how many loadDriverStatuses calls one run makes
MaxFetches == 4

\* the period given to setInterval
PollIntervalMs == 60000

\* what apiService.getCurrentLocations() settles to: an envelope with a
\* list, with something that is no list, a failed envelope, or a throw
\* out of the try block
LocationsA == JArr(<<Snapshot(1, "Bruno", 25, 590000)>>)
LocationsB ==
  JArr(<<Snapshot(1, "Bruno", 0, 590000), Snapshot(3, "Ana", -3, 590000)>>)
LocationsC ==
  JArr(<<Snapshot(1, "Bruno", 25, 590000), JObj([speed |-> JNum(25)]),
         JObj([id |-> JStr(<<"d2">>), driver_name |-> JStr(<<"Ana">>),
               speed |-> JNum(0)]),
         JNull>>)
LocationOutcomes ==
  {Ret(JObj([success |-> JBool(TRUE), data |-> d])) :
     d \in {LocationsA, LocationsB, LocationsC, JArr(<<>>), EmptyObj}}
    \cup {Ret(FailedEnvelope(ConnectivityMessage)),
          Ret(JObj([success |-> JBool(FALSE), data |-> LocationsA])),
          Throw(JsError(<<"boom">>))}

\* the options of the calls: loadDriverStatuses() and
\* loadDriverStatuses({ silent: true })
TimerOptionsLoud == [silent |-> FALSE]
TimerOptions == [silent |-> TRUE]
DefaultOptions == [silent |-> FALSE]

\* if (!silent) setDriversLoading(true)
LoadingAfterStart(silent, loading) == IF ~silent THEN TRUE ELSE loading

\* a catch block that toasts for every call
ToastsAfterCatchAlways(silent, n) == n + 1

\* catch: if (!silent) toast({...})
ToastsAfterCatch(silent, n) == IF ~silent THEN n + 1 ELSE n

\* a finally block that leaves the flag as it is
LoadingAfterFinallyKept(silent, loading) == loading

\* finally: if (!silent) setDriversLoading(false)
LoadingAfterFinally(silent, loading) == IF ~silent THEN FALSE ELSE loading

\* a test that looks at the data only
HasDriverListAnyArray(response) == GetProp(response, "data").t = "arr"

\* response.success && Array.isArray(response.data)
HasDriverList(response) ==
  Truthy(GetProp(response, "success")) /\ GetProp(response, "data").t = "arr"

\* loadDriverStatuses up to its await: the call is in flight
StartLoad(options) ==
  /\ issued < MaxFetches
  /\ issued' = issued + 1
  /\ fetches' = fetches \cup {[id |-> issued + 1, silent |-> options.silent]}
  /\ driversLoading' = LoadingAfterStart(options.silent, driversLoading)
  /\ UNCHANGED <<driverStatuses, toasts, form>>

\* the polling effect on mount: the first load, then setInterval
MountPolling ==
  /\ life = "init"
  /\ life' = "mounted"
  /\ StartLoad(DefaultOptions)
  /\ timers' = timers \cup {[period |-> PollIntervalMs, due |-> now + PollIntervalMs]}
  /\ ev' = [kind |-> "mount", id |-> issued + 1]
  /\ UNCHANGED apiVars

\* an interval timer comes due: its callback loads silently
TimerFire ==
  /\ \E t \in timers :
       /\ now' = t.due
       /\ timers' = (timers \ {t}) \cup {[t EXCEPT !.due = t.due + t.period]}
  /\ StartLoad(TimerOptions)
  /\ ev' = [kind |-> "timer", id |-> issued + 1]
  /\ UNCHANGED <<storage, auth, pc, call, result, life>>

\* the Atualizar button, disabled while driversLoading
Refresh ==
  /\ life = "mounted"
  /\ ~driversLoading
  /\ StartLoad(DefaultOptions)
  /\ ev' = [kind |-> "refresh", id |-> issued + 1]
  /\ UNCHANGED apiVars
  /\ UNCHANGED <<life, timers>>

\* a continuation with a sequence guard: only the newest call's list is
\* put on display
LoadSettleNewestOnly(f, outcome) ==
  /\ f \in fetches
  /\ fetches' = fetches \ {f}
  /\ driverStatuses' =
       IF ~outcome.threw /\ HasDriverList(outcome.ret) /\ f.id = issued
       THEN Normalized(outcome.ret.f.data.a, now)
       ELSE driverStatuses
  /\ toasts' = IF outcome.threw THEN ToastsAfterCatch(f.silent, toasts) ELSE toasts
  /\ driversLoading' = LoadingAfterFinally(f.silent, driversLoading)
  /\ ev' = [kind |-> "settle", id |-> f.id, silent |-> f.silent,
            outcome |-> outcome]
  /\ UNCHANGED apiVars
  /\ UNCHANGED <<life, timers, issued, form>>

\* loadDriverStatuses after its await: try, catch, finally
LoadSettle(f, outcome) ==
  /\ f \in fetches
  /\ fetches' = fetches \ {f}
  /\ driverStatuses' =
       IF ~outcome.threw /\ HasDriverList(outcome.ret)
       THEN Normalized(outcome.ret.f.data.a, now)
       ELSE driverStatuses
  /\ toasts' = IF outcome.threw THEN ToastsAfterCatch(f.silent, toasts) ELSE toasts
  /\ driversLoading' = LoadingAfterFinally(f.silent, driversLoading)
  /\ ev' = [kind |-> "settle", id |-> f.id, silent |-> f.silent,
            outcome |-> outcome]
  /\ UNCHANGED apiVars
  /\ UNCHANGED <<life, timers, issued, form>>

\* the effect's cleanup on unmount: clearInterval(intervalId)
Unmount ==
  /\ life = "mounted"
  /\ life' = "gone"
  /\ timers' = {}
  /\ ev' = [kind |-> "unmount", id |-> issued]
  /\ UNCHANGED apiVars
  /\ UNCHANGED <<fetches, issued, driversLoading, driverStatuses, toasts, form>>

InitPoll ==
  /\ storage = NoKeys
  /\ now = MsPerSec
  /\ ApiIdle
  /\ DashIdle

NextPoll ==
  \/ MountPolling
  \/ TimerFire
  \/ Refresh
  \/ \E f \in fetches, outcome \in LocationOutcomes : LoadSettle(f, outcome)
  \/ Unmount

SpecPoll == InitPoll /\ [][NextPoll]_vars

\* C18: on mount exactly one non-silent fetch is issued (the loading flag
\* is set) and one repeating 60-second timer is scheduled; every firing
\* of the timer issues a silent fetch, and a fetch, silent or not, that
\* brings a driver list puts that list on display.
C18_MountAndTimer ==
  /\ ev.kind = "mount" =>
       /\ fetches = {[id |-> 1, silent |-> FALSE]}
       /\ issued = 1
       /\ driversLoading
       /\ timers = {[period |-> 60000, due |-> now + 60000]}
  /\ life = "mounted" => Cardinality(timers) = 1
  /\ ev.kind = "timer" =>
       /\ [id |-> ev.id, silent |-> TRUE] \in fetches
       /\ issued = ev.id
       /\ \A t \in timers : t.period = 60000 /\ t.due = now + 60000
  /\ (ev.kind = "settle" /\ ~ev.outcome.threw /\ HasDriverList(ev.outcome.ret)) =>
       driverStatuses = Normalized(ev.outcome.ret.f.data.a, now)

C18_Witness ==
  /\ ev.kind = "timer"
  /\ now = MsPerSec + 2 * 60000
  /\ fetches = {[id |-> 1, silent |-> FALSE], [id |-> 2, silent |-> TRUE],
                [id |-> 3, silent |-> TRUE]}
  /\ driversLoading

\* a step of a silent refresh: the timer's call or the settling of it
SilentStep ==
  \/ ev'.kind = "timer" /\ ev' # ev
  \/ ev'.kind = "settle" /\ ev' # ev /\ ev'.silent

\* C19: a silent refresh that throws leaves the loading flag alone (the
\* flag is true only while a non-silent fetch is in flight, so it stays
\* false throughout a silent refresh on its own) and fires no toast; a
\* non-silent fetch that throws fires one error toast and ends the loading.
C19_SilentRefreshIsSilent ==
  /\ [](driversLoading <=> \E f \in fetches : ~f.silent)
  /\ [][/\ SilentStep => UNCHANGED <<driversLoading, toasts>>
        /\ (ev'.kind = "settle" /\ ev' # ev /\ ev'.silent /\ ev'.outcome.threw)
             => UNCHANGED driverStatuses
        /\ (ev'.kind = "settle" /\ ev' # ev /\ ~ev'.silent /\ ev'.outcome.threw)
             => /\ toasts' = toasts + 1
                /\ ~driversLoading'
                /\ UNCHANGED driverStatuses]_vars

C19_Witness ==
  /\ ev.kind = "settle" /\ ev.silent /\ ev.outcome.threw
  /\ ev.id = 2
  /\ fetches = {}
  /\ ~driversLoading
  /\ toasts = 1

Settled == ev'.kind = "settle" /\ ev' # ev

\* a fetch has just completed with a driver list
SettledWithList ==
  Settled /\ ~ev'.outcome.threw /\ HasDriverList(ev'.outcome.ret)

\* C21: overlapping fetches are all kept (a timer tick adds a fetch and
\* cancels none) and the displayed list is always that of the successful
\* fetch that completed last, whatever the order the fetches were issued
\* in: a completion with a list puts that list on display, and no other
\* step changes the list.
C21_LastCompletionWins ==
  [][/\ ev'.kind = "timer" /\ ev' # ev =>
          fetches' = fetches \cup {[id |-> issued + 1, silent |-> TRUE]}
     /\ IF SettledWithList
        THEN driverStatuses' = Normalized(ev'.outcome.ret.f.data.a, now')
        ELSE UNCHANGED driverStatuses]_vars

\* the first fetch completes after the second one, and its list is shown
C21_Witness ==
  /\ ev.kind = "settle" /\ ev.id = 1
  /\ issued = 2 /\ fetches = {}
  /\ ev.outcome = Ret(JObj([success |-> JBool(TRUE), data |-> LocationsA]))
  /\ driverStatuses = Normalized(LocationsA.a, now)

\* C22: whenever a non-silent driver-status fetch resolves to a failed
\* envelope, the dashboard shows the user an error (a toast).
C22_FailedEnvelopeSurfaced ==
  [][(Settled /\ ~ev'.silent /\ ~ev'.outcome.threw
        /\ IsFailedEnvelope(ev'.outcome.ret)) => toasts' > toasts]_vars

-----------------------------------------------------------------------------
(* Concurrent request() calls.  A call runs without interruption from its  *)
(* entry to its await of fetch (getBaseUrl, getAuthHeader and the call of  *)
(* fetch are synchronous), so calls interleave at the awaits only.         *)

\* how many request() calls one run makes
MaxCalls == 2

ConcOptions == {[method |-> Lit("GET")], LoginOptions}
ConcOutcomes ==
  {Ret([status |-> 200, body |-> JsonText(EmptyObj)]),
   Ret([status |-> 401, body |-> JsonText(JObj([error |-> JStr(<<"Token invalido">>)]))]),
   Throw(JsError(<<FetchWord>>))}

\* request() from its entry to the call of fetch, next to the calls that
\* are already in flight
ConcStart(options, base) ==
  /\ issued < MaxCalls
  /\ issued' = issued + 1
  /\ IF base.threw
     THEN /\ ev' = [kind |-> "call", id |-> issued + 1, r |-> Catch(base)]
          /\ UNCHANGED <<storage, fetches>>
     ELSE LET a == getAuthHeader(storage, now)
              headers == BuildHeaders(a.hdr, options)
          IN /\ storage' = a.st
             /\ fetches' = fetches \cup
                  {[id |-> issued + 1, seen |-> storage, left |-> a.st,
                    authHdr |-> a.hdr, init |-> FetchInit(headers, options)]}
             /\ ev' = [kind |-> "call", id |-> issued + 1]
  /\ UNCHANGED <<now, auth, pc, call, result>>
  /\ UNCHANGED <<life, timers, driversLoading, driverStatuses, toasts, form>>

\* request() from the settling of its fetch to its return
ConcSettle(f, outcome) ==
  /\ f \in fetches
  /\ fetches' = fetches \ {f}
  /\ ev' = [kind |-> "return", id |-> f.id, r |-> Catch(AfterFetch(outcome))]
  /\ UNCHANGED apiVars
  /\ UNCHANGED <<life, timers, issued, driversLoading, driverStatuses, toasts,
                 form>>

NextConc ==
  \/ Tick
  \/ \E options \in ConcOptions, base \in BaseUrlOutcomes : ConcStart(options, base)
  \/ \E f \in fetches, outcome \in ConcOutcomes : ConcSettle(f, outcome)

\* tokens for the concurrent runs: one that expires while the clock runs,
\* one that is expired from the start, one that is no JWT
ConcTokens ==
  {Jwt(Seg("b64", JsonText(Payload(JNum(2))))),
   Jwt(Seg("b64url", JsonText(Payload(JNum(1))))),
   Token(<<OpaqueSeg, OpaqueSeg>>)}

InitConc ==
  /\ storage \in Storages(ConcTokens)
  /\ now = MsPerSec
  /\ ApiIdle
  /\ DashIdle

SpecConc == InitConc /\ [][NextConc]_vars

\* none of the five session keys is stored
AllRemoved(st) == \A k \in SessionKeys : k \notin DOMAIN st

\* C23: the cleanup is atomic with respect to the header construction,
\* under every interleaving of concurrent request() calls: every step
\* leaves the storage as it was or without any of the five keys, so no
\* call sees only some of them removed; and a call that sends an
\* Authorization header has removed nothing, its header is that of the
\* token still stored when it was built.
C23_CleanupIsAtomic ==
  /\ [][storage' = storage \/ AllRemoved(storage')]_vars
  /\ [](\A f \in fetches :
          /\ f.left = f.seen \/ AllRemoved(f.left)
          /\ "Authorization" \in DOMAIN f.init.headers =>
               /\ f.left = f.seen
               /\ f.init.headers["Authorization"] = Bearer(ActiveToken(f.left))
          /\ f.left # f.seen => "Authorization" \notin DOMAIN f.init.headers)

\* two calls in flight: the first sent its token, the second found it
\* expired, removed the session and sent no Authorization header
C23_Witness ==
  \E f, g \in fetches :
    /\ f.id = 1 /\ g.id = 2
    /\ "Authorization" \in DOMAIN f.init.headers
    /\ g.seen = f.left /\ g.left # g.seen /\ AllRemoved(g.left)
    /\ "Authorization" \notin DOMAIN g.init.headers
    /\ storage = g.left

-----------------------------------------------------------------------------
(* ApiService.registerDriverAccount: one createDriver call, its envelope   *)
(* turned into the result                                                  *)

RegisterFallback == <<"Falha ao registrar a conta do motorista.">>
DriversEndpoint == "/api/drivers"

\* the payloads of the form: phone and cnh are optional
RegisterPayloads ==
  {[username |-> JStr(<<"ana">>), password |-> JStr(<<"segredo">>),
    email |-> JStr(<<"ana@x.com">>), full_name |-> JStr(<<n>>),
    cpf |-> JStr(<<"12345678901">>), company_id |-> JStr(<<"7">>)] @@ ph
     : n \in {"Ana Lima", "Bruno Sa"},
       ph \in Field("phone", {JStr(<<"11999990000">>)})}

\* { ...payload, name: payload.full_name }
DriverData(payload) == Spread(payload, [name |-> payload.full_name])

\* createDriver's options: method POST, body JSON.stringify(driverData)
CreateDriverOptions(driverData) ==
  [method |-> Lit("POST"),
   body |-> [kind |-> "json", text |-> JsonText(JObj(driverData))]]

\* a result that always carries the fixed message
RegisterResultFixed(response) ==
  IF ~Truthy(GetProp(response, "success"))
  THEN FailedEnvelope(RegisterFallback)
  ELSE JObj([success |-> JBool(TRUE), data |-> GetProp(response, "data")])

\* if (!response.success) throw new Error(response.error || fallback),
\* caught: { success: false, error: error.message };
\* else { success: true, data: response.data }
RegisterResult(response) ==
  IF ~Truthy(GetProp(response, "success"))
  THEN LET e == GetProp(response, "error") IN
       FailedEnvelope(IF Truthy(e) THEN JsToString(e) ELSE RegisterFallback)
  ELSE JObj([success |-> JBool(TRUE), data |-> GetProp(response, "data")])

\* registerDriverAccount up to the call of fetch: createDriver gives the
\* mapped payload to request()
RegisterStart(payload, base) ==
  /\ pc = "idle"
  /\ LET options == CreateDriverOptions(DriverData(payload)) IN
     IF base.threw
     THEN /\ pc' = "done"
          /\ call' = NoCall
          /\ result' = [at |-> "getBaseUrl", outcome |-> base, r |-> Catch(base)]
          /\ UNCHANGED storage
     ELSE LET a == getAuthHeader(storage, now)
              headers == BuildHeaders(a.hdr, options)
          IN /\ storage' = a.st
             /\ pc' = "fetching"
             /\ call' = [options |-> options, authHdr |-> a.hdr,
                         headers |-> headers,
                         init |-> FetchInit(headers, options),
                         endpoint |-> DriversEndpoint, payload |-> payload]
             /\ result' = NoResult
  /\ UNCHANGED <<now, auth>>
  /\ UNCHANGED dashVars

\* registerDriverAccount after the await of createDriver
RegisterReturn ==
  /\ pc = "done"
  /\ pc' = "idle"
  /\ result' = [at |-> "registerDriverAccount", outcome |-> result.outcome,
                response |-> result.r.ret,
                r |-> Ret(RegisterResult(result.r.ret))]
  /\ UNCHANGED <<storage, now, auth, call>>
  /\ UNCHANGED dashVars

NextRegister ==
  \/ Tick
  \/ \E payload \in RegisterPayloads, base \in BaseUrlOutcomes :
       RegisterStart(payload, base)
  \/ \E outcome \in FetchOutcomes : RequestSettle(outcome)
  \/ RegisterReturn

SpecRegister == InitRequest /\ [][NextRegister]_vars

\* registerDriverAccount has returned
Registered == pc = "idle" /\ result.at = "registerDriverAccount"

\* the text of an error field: a string as it is, anything else as
\* String() writes it
ErrorText(e) ==
  CASE e.t = "str" -> e.s
    [] e.t = "num" -> <<ToString(e.h \div 2)>>
    [] e.t = "obj" -> <<"[object Object]">>
    [] OTHER -> JsToString(e)

\* C25: registerDriverAccount never throws; its one request is POST
\* /api/drivers with the payload and the payload's full_name as name; it
\* returns {success:true, data} exactly when createDriver's envelope has
\* success true, and otherwise {success:false, error} with createDriver's
\* error or, when there is none, the fixed message.
C25_RegisterDriverAccount ==
  /\ pc = "fetching" =>
       /\ call.endpoint = DriversEndpoint
       /\ call.init.method = Lit("POST")
       /\ call.init.body.kind = "json"
       /\ LET sent == call.init.body.text.v.f IN
          /\ DOMAIN sent = DOMAIN call.payload \cup {"name"}
          /\ sent.name = call.payload.full_name
          /\ \A k \in DOMAIN call.payload : sent[k] = call.payload[k]
  /\ Registered =>
       /\ ~result.r.threw
       /\ LET response == result.response
              out == result.r.ret
              e == GetProp(response, "error")
          IN IF GetProp(response, "success") = JBool(TRUE)
             THEN out = JObj([success |-> JBool(TRUE),
                              data |-> GetProp(response, "data")])
             ELSE out = JObj([success |-> JBool(FALSE),
                              error |-> JStr(IF Truthy(e) THEN ErrorText(e)
                                             ELSE RegisterFallback)])

C25_Witness ==
  /\ Registered
  /\ result.outcome = Ret([status |-> 401,
                           body |-> JsonText(JObj([error |-> JStr(<<"Token invalido">>)]))])
  /\ result.r = Ret(FailedEnvelope(<<"Token invalido">>))

-----------------------------------------------------------------------------
(* DriverForm: the dialog with the registration form.  form.pending says   *)
(* that a submission awaits registerDriverAccount; form.saved counts the   *)
(* onSuccess calls; form.toast is the last toast of the form.              *)

\* how many submissions one run makes
MaxSubmits == 2

CreateFallback == <<"Falha ao criar motorista.">>
SubmitFallback == <<"Nao foi possivel cadastrar o motorista. Tente novamente.">>

\* what the user types, with the company the dialog was opened for
FilledValues(n, companyId) ==
  [name |-> n, username |-> "ana", email |-> "ana@x.com",
   password |-> "segredo", cpf |-> "123.456.789-01", cnh |-> "12345678901",
   phone |-> "(11) 99999-0000", company_id |-> companyId]
Names == {"Ana Lima", "Bruno Sa", "Al"}
CompanyIds == {"7", ""}

\* driverFormSchema: the shortest lengths (the pattern of the email is
\* not modelled, the one email in use is valid)
Valid(v) ==
  /\ Len(v.name) >= 3 /\ Len(v.username) >= 3 /\ Len(v.email) >= 1
  /\ Len(v.password) >= 6 /\ Len(v.cpf) >= 11 /\ Len(v.cpf) <= 14
  /\ Len(v.cnh) = 11 /\ Len(v.phone) >= 10 /\ Len(v.company_id) >= 1

\* replace(/\D/g, ''): the digits of the strings in use
OnlyDigits(w) ==
  CASE w = "123.456.789-01" -> "12345678901"
    [] w = "(11) 99999-0000" -> "11999990000"
    [] OTHER -> w

\* the payload onSubmit builds
PayloadOf(data) ==
  [username |-> data.username, password |-> data.password,
   email |-> data.email, full_name |-> data.name, cpf |-> OnlyDigits(data.cpf),
   cnh |-> OnlyDigits(data.cnh), phone |-> OnlyDigits(data.phone),
   company_id |-> data.company_id]

\* what registerDriverAccount gives the form: its result for createDriver's
\* envelopes, or a throw out of the try block
CreateDriverEnvelopes ==
  {JObj([success |-> JBool(TRUE), data |-> JObj([id |-> JStr(<<"d9">>)])]),
   JObj([success |-> JBool(TRUE)]),
   FailedEnvelope(<<"CPF ja cadastrado">>),
   FailedEnvelope(ConnectivityMessage),
   JObj([success |-> JBool(FALSE)]),
   JObj([success |-> JBool(FALSE), error |-> JStr(<<>>)]),
   JObj([success |-> JBool(FALSE), data |-> JObj([id |-> JStr(<<"d9">>)])])}
FormOutcomes ==
  {Ret(RegisterResult(e)) : e \in CreateDriverEnvelopes}
    \cup {Throw(JsError(<<"boom">>)), Throw(JsError(<<>>)),
          Throw(NonError(<<"boom">>))}

\* the error the catch block gets: the one thrown for a failed envelope,
\* new Error(response.error || fallback), or the one the call threw
CaughtError(outcome) ==
  IF outcome.threw THEN outcome.exc
  ELSE LET e == GetProp(outcome.ret, "error") IN
       JsError(IF Truthy(e) THEN JsToString(e) ELSE CreateFallback)

\* error.message || fallback
ToastDescription(exc) ==
  IF exc.isError /\ exc.message # <<>> THEN exc.message ELSE SubmitFallback

\* a finally block that leaves the flag as it is
SubmittingAfterFinallyKept(flag) == flag

\* finally: setIsSubmitting(false)
SubmittingAfterFinally(flag) == FALSE

\* the dashboard's button opens the dialog; the form's effect sets the
\* company
FormOpen(companyId) ==
  /\ ~form.open
  /\ form' = [form EXCEPT !.open = TRUE, !.values.company_id = companyId,
                          !.step = [at |-> "open"]]
  /\ UNCHANGED apiVars
  /\ UNCHANGED pollVars

\* the user types
FormFill(n) ==
  /\ form.open
  /\ form' = [form EXCEPT !.values = FilledValues(n, form.values.company_id),
                          !.step = [at |-> "fill"]]
  /\ UNCHANGED apiVars
  /\ UNCHANGED pollVars

\* the Cancelar button, disabled while isSubmitting
FormCancel ==
  /\ form.open
  /\ ~form.isSubmitting
  /\ form' = [form EXCEPT !.open = FALSE, !.step = [at |-> "cancel"]]
  /\ UNCHANGED apiVars
  /\ UNCHANGED pollVars

\* the Dialog's own onOpenChange (Escape, a click outside, the close
\* button): nothing disables it
FormDismiss ==
  /\ form.open
  /\ form' = [form EXCEPT !.open = FALSE, !.step = [at |-> "dismiss"]]
  /\ UNCHANGED apiVars
  /\ UNCHANGED pollVars

\* the Salvar button, disabled while isSubmitting: handleSubmit validates,
\* onSubmit runs up to its await
FormSubmit ==
  /\ form.open
  /\ ~form.isSubmitting
  /\ Valid(form.values)
  /\ form.submits < MaxSubmits
  /\ form' = [form EXCEPT !.isSubmitting = TRUE, !.pending = TRUE,
                          !.submits = @ + 1,
                          !.step = [at |-> "onSubmit",
                                    payload |-> PayloadOf(form.values)]]
  /\ UNCHANGED apiVars
  /\ UNCHANGED pollVars

\* onSubmit after its await: try, catch, finally
FormSettle(outcome) ==
  /\ form.pending
  /\ form' =
       IF ~outcome.threw /\ Truthy(GetProp(outcome.ret, "success"))
       THEN [form EXCEPT
               !.toast = [variant |-> "default", title |-> "Motorista Cadastrado!"],
               !.saved = @ + 1,
               !.open = FALSE,
               !.values = DefaultValues,
               !.pending = FALSE,
               !.step = [at |-> "settled", outcome |-> outcome],
               !.isSubmitting = SubmittingAfterFinally(@)]
       ELSE [form EXCEPT
               !.toast = [variant |-> "destructive", title |-> "Erro no Cadastro",
                          description |-> ToastDescription(CaughtError(outcome))],
               !.pending = FALSE,
               !.step = [at |-> "settled", outcome |-> outcome],
               !.isSubmitting = SubmittingAfterFinally(@)]
  /\ UNCHANGED apiVars
  /\ UNCHANGED pollVars

InitForm ==
  /\ storage = NoKeys
  /\ now = MsPerSec
  /\ ApiIdle
  /\ DashIdle

NextForm ==
  \/ \E companyId \in CompanyIds : FormOpen(companyId)
  \/ \E n \in Names : FormFill(n)
  \/ FormCancel
  \/ FormDismiss
  \/ FormSubmit
  \/ \E outcome \in FormOutcomes : FormSettle(outcome)

SpecForm == InitForm /\ [][NextForm]_vars

\* registerDriverAccount settles: request() always resolves or rejects
SpecFormLive ==
  SpecForm /\ WF_vars(\E outcome \in FormOutcomes : FormSettle(outcome))

\* the submission that has just settled did so with a success
JustSettled == form.pending /\ ~form'.pending
SettledOk ==
  ~form'.step.outcome.threw
    /\ GetProp(form'.step.outcome.ret, "success") = JBool(TRUE)

\* C26: the submitting flag is true from the start of a submission until
\* its call settles and is eventually false again on every path; while it
\* is true no second submission starts and the cancel button does not act;
\* on success onSuccess is called, the dialog closed and the form reset;
\* on failure (failed envelope or throw) the dialog and the values stay
\* as they are and an error toast is shown.
C26_SubmitLifecycle ==
  /\ [](form.isSubmitting <=> form.pending)
  /\ [][form.isSubmitting =>
          /\ form'.submits = form.submits
          /\ form'.step.at # "cancel"]_vars
  /\ [][JustSettled =>
          IF SettledOk
          THEN /\ form'.saved = form.saved + 1
               /\ ~form'.open
               /\ form'.values = DefaultValues
               /\ form'.toast.variant = "default"
          ELSE /\ form'.saved = form.saved
               /\ form'.open = form.open
               /\ form'.values = form.values
               /\ form'.toast.variant = "destructive"]_vars
  /\ form.isSubmitting ~> ~form.isSubmitting

\* a submission has failed: the dialog is open with the values typed
C26_Witness ==
  /\ form.step = [at |-> "settled",
                  outcome |-> Ret(FailedEnvelope(<<"CPF ja cadastrado">>))]
  /\ form.open /\ ~form.isSubmitting /\ form.submits = 1
  /\ form.values = FilledValues("Ana Lima", "7")
  /\ form.toast = [variant |-> "destructive", title |-> "Erro no Cadastro",
                   description |-> <<"CPF ja cadastrado">>]

-----------------------------------------------------------------------------
(* The call sites that read an envelope, each at the point where its       *)
(* await of the API client is about to resume, all given the envelope      *)
(* that request() makes of one backend answer: login and getAuthCompanies  *)
(* after request(), registerDriverAccount after createDriver, the form's   *)
(* onSubmit after registerDriverAccount, loadDriverStatuses after          *)
(* getCurrentLocations with a list on display.                             *)

SiteBodies ==
  {JObj([success |-> JBool(FALSE)]),
   JObj([success |-> JBool(FALSE), error |-> JStr(<<"recusado">>)]),
   JObj([success |-> JBool(FALSE), data |-> Nest(1, Session)]),
   JObj([success |-> JBool(FALSE), data |-> LocationsB]),
   JObj([success |-> JBool(FALSE), error |-> JStr(<<>>), data |-> LocationsB]),
   JObj([success |-> JBool(FALSE), error |-> JStr(<<"recusado">>),
         data |-> JObj([data |-> LocationsB])]),
   JObj([success |-> JBool(TRUE), data |-> Nest(1, Session)]),
   JObj([success |-> JBool(TRUE), data |-> LocationsB]),
   JObj([success |-> JBool(TRUE), data |-> JObj([data |-> LocationsB])])}
SiteOutcomes ==
  {Ret([status |-> st, body |-> JsonText(v)]) : st \in {200, 500}, v \in SiteBodies}
    \cup {Throw(JsError(<<"boom">>))}

\* the list on display before the poll settles
ShownBefore == Normalized(LocationsA.a, MsPerSec)

InitSites ==
  /\ storage = NoKeys
  /\ now = MsPerSec
  /\ auth = NoAuth
  /\ pc = "done"
  /\ call = NoCall
  /\ \E outcome \in SiteOutcomes :
       result = [at |-> "fetch", outcome |-> outcome,
                 r |-> Catch(AfterFetch(outcome))]
  /\ life = "mounted"
  /\ timers = {[period |-> PollIntervalMs, due |-> MsPerSec + PollIntervalMs]}
  /\ fetches = {[id |-> 2, silent |-> FALSE]}
  /\ issued = 2
  /\ driversLoading = TRUE
  /\ driverStatuses = ShownBefore
  /\ toasts = 0
  /\ ev = [kind |-> "refresh", id |-> 2]
  /\ form = [FormIdle EXCEPT
               !.open = TRUE, !.isSubmitting = TRUE, !.pending = TRUE,
               !.submits = 1,
               !.values = FilledValues("Ana Lima", "7"),
               !.step = [at |-> "onSubmit",
                         payload |-> PayloadOf(FilledValues("Ana Lima", "7"))]]

\* getAuthCompanies after the await of request(): the same unwrapping
CompaniesReturn ==
  /\ pc = "done"
  /\ pc' = "returned"
  /\ result' = [at |-> "getAuthCompanies", outcome |-> result.outcome,
                response |-> result.r.ret,
                r |-> Ret(LoginUnwrap(result.r.ret))]
  /\ UNCHANGED <<storage, now, auth, call>>
  /\ UNCHANGED dashVars

\* onSubmit resumes with what registerDriverAccount returned
FormTakes ==
  /\ Registered
  /\ FormSettle(result.r)

\* loadDriverStatuses resumes with request()'s envelope
DashTakes ==
  /\ pc = "done"
  /\ \E f \in fetches : LoadSettle(f, result.r)

NextSites ==
  \/ LoginReturn
  \/ LoginDone
  \/ CompaniesReturn
  \/ RegisterReturn
  \/ FormTakes
  \/ DashTakes

SpecSites == InitSites /\ [][NextSites]_vars

IsFailed(env) == GetProp(env, "success") = JBool(FALSE)

\* C24: an envelope with success false, with or without error or data, is
\* returned by login and by getAuthCompanies as it is, is returned by
\* registerDriverAccount as a failed envelope, leaves the driver form
\* open with an error toast and no onSuccess, and leaves the list on
\* display as it was.
C24_FailureIsAuthoritative ==
  /\ (pc = "returned" /\ IsFailed(result.response)) =>
        /\ result.at \in {"login", "getAuthCompanies"}
        /\ result.r = Ret(result.response)
  /\ (Registered /\ IsFailed(result.response)) =>
        /\ IsFailed(result.r.ret)
        /\ DOMAIN result.r.ret.f = {"success", "error"}
  /\ (form.step.at = "settled" /\ IsFailed(form.step.outcome.ret)) =>
        /\ form.open
        /\ form.saved = 0
        /\ form.values = FilledValues("Ana Lima", "7")
        /\ form.toast.variant = "destructive"
  /\ (ev.kind = "settle" /\ IsFailed(ev.outcome.ret)) =>
        driverStatuses = ShownBefore

\* the backend answered 2xx with success false and a list as data:
\* getAuthCompanies has returned it, the form and the dashboard have
\* taken it
C24_Witness ==
  /\ \E env \in SiteBodies :
       /\ IsFailed(env) /\ GetProp(env, "data") = LocationsB
       /\ ev.kind = "settle" /\ ev.outcome = Ret(env)
       /\ fetches = {}
  /\ form.step.at = "settled" /\ IsFailed(form.step.outcome.ret)
  /\ ~form.isSubmitting
  /\ driverStatuses = ShownBefore

-----------------------------------------------------------------------------
(* ApiService.uploadCompanyLogo, next to request(): the calls that leave   *)
(* the client with an Authorization header.                               *)

UploadFallback == <<"Erro no upload do logo">>
LogoEndpoint == <<"/api/companies/", "c1", "/logo">>

\* headers: token ? { Authorization: `Bearer ${token}` } : {}
UploadHeaders(token) ==
  IF ~IsNull(token) THEN [Authorization |-> Bearer(token)] ELSE NoHeaders

\* the try block after the fetch: throw for a non-2xx answer, else
\* { success: true, data }
UploadAfterFetch(outcome) ==
  IF outcome.threw THEN outcome
  ELSE LET resp == outcome.ret
           e == ErrorField(ErrorData(resp))
       IN IF ~Ok(resp)
          THEN Throw(JsError(IF Truthy(e) THEN JsToString(e)
                             ELSE HttpStatusMessage(resp.status)))
          ELSE LET parsed == JsonParse(resp.body) IN
               IF parsed.threw THEN parsed
               ELSE Ret(JObj([success |-> JBool(TRUE), data |-> parsed.ret]))

\* catch: { success: false, error: error instanceof Error ? error.message
\* : fallback }
UploadCatch(r) ==
  IF r.threw
  THEN Ret(FailedEnvelope(IF r.exc.isError THEN r.exc.message ELSE UploadFallback))
  ELSE r

\* uploadCompanyLogo up to its await of fetch: the token is read from
\* localStorage as it is
UploadStart(base) ==
  /\ pc = "idle"
  /\ LET token == getItem(storage, TokenKey) IN
     IF base.threw
     THEN /\ pc' = "done"
          /\ call' = NoCall
          /\ result' = [at |-> "getBaseUrl", outcome |-> base,
                        r |-> UploadCatch(base)]
     ELSE /\ pc' = "uploading"
          /\ call' = [options |-> [method |-> Lit("POST"),
                                   body |-> BodyOf("formdata")],
                      authHdr |-> UploadHeaders(token),
                      init |-> [method |-> Lit("POST"),
                                headers |-> UploadHeaders(token),
                                body |-> BodyOf("formdata")],
                      endpoint |-> LogoEndpoint]
          /\ result' = NoResult
  /\ UNCHANGED <<storage, now, auth>>
  /\ UNCHANGED dashVars

\* uploadCompanyLogo from the settling of fetch to its return
UploadSettle(outcome) ==
  /\ pc = "uploading"
  /\ pc' = "done"
  /\ call' = NoCall
  /\ result' = [at |-> "uploadCompanyLogo", outcome |-> outcome,
                r |-> UploadCatch(UploadAfterFetch(outcome))]
  /\ UNCHANGED <<storage, now, auth>>
  /\ UNCHANGED dashVars

NextUpload ==
  \/ Tick
  \/ \E base \in BaseUrlOutcomes : RequestStart([method |-> Lit("GET")], base)
  \/ \E outcome \in ConcOutcomes : RequestSettle(outcome)
  \/ RequestReturn
  \/ \E base \in BaseUrlOutcomes : UploadStart(base)
  \/ \E outcome \in ConcOutcomes : UploadSettle(outcome)

SpecUpload == InitConc /\ [][NextUpload]_vars

\* a call leaves the client in this step
CallLeaves == pc = "idle" /\ pc' \in {"fetching", "uploading"}

\* C27: every call that leaves the client with an Authorization header
\* carries a token that passed the expiry check when the header was
\* built, uploadCompanyLogo included.
C27_SentTokenWasChecked ==
  [][(CallLeaves /\ "Authorization" \in DOMAIN call'.authHdr) =>
       TokenCheck(call'.authHdr.Authorization.bearer, now) = Ret(TRUE)]_vars

-----------------------------------------------------------------------------
(* getAuthHeader: which slot it consults and what it leaves in storage     *)

\* slot k of storage st holds a token that passes the check at time nw
SlotValid(st, k, nw) == k \in DOMAIN st /\ TokenCheck(st[k], nw) = Ret(TRUE)

\* C28: when the final token is invalid while a valid temporary token is
\* stored, getAuthHeader returns the empty header and removes the five
\* session keys; when the final token is valid, or there is none and the
\* temporary token is valid, or no token is stored at all, it leaves the
\* storage as it was.
C28_FinalShadowsTemp ==
  auth.op = "getAuthHeader" =>
    LET b == auth.before
        finalOk == SlotValid(b, TokenKey, auth.at)
        tempOk == SlotValid(b, TempTokenKey, auth.at)
    IN /\ (TokenKey \in DOMAIN b /\ ~finalOk /\ tempOk) =>
            /\ auth.hdr = NoHeaders
            /\ DOMAIN storage \cap SessionKeys = {}
       /\ (\/ finalOk
           \/ TokenKey \notin DOMAIN b /\ tempOk
           \/ {TokenKey, TempTokenKey} \cap DOMAIN b = {}) =>
            storage = b

\* all five keys were stored, the final token invalid and the temporary
\* one valid: the header came back empty and nothing is left
C28_Witness ==
  /\ auth.op = "getAuthHeader"
  /\ DOMAIN auth.before = SessionKeys
  /\ ~SlotValid(auth.before, TokenKey, auth.at)
  /\ SlotValid(auth.before, TempTokenKey, auth.at)
  /\ auth.hdr = NoHeaders
  /\ DOMAIN storage = {}

-----------------------------------------------------------------------------
(* loadDriverStatuses: what a poll does to the list on display             *)

\* a snapshot with a driver_id or an id
HasId(raw) ==
  ~Nullish(GetProp(raw, "driver_id")) \/ ~Nullish(GetProp(raw, "id"))

\* C29: a poll, silent or not, that resolves to a failed envelope or to
\* data that is no array, or that throws, leaves the list on display as
\* it was; a successful poll replaces it with one entry for each entry of
\* the response that has a driver_id or an id, and no other, in the
\* order of the names.
C29_PollReplacesWholesale ==
  [][Settled =>
       LET o == ev'.outcome IN
       IF /\ ~o.threw
          /\ GetProp(o.ret, "success") = JBool(TRUE)
          /\ GetProp(o.ret, "data").t = "arr"
       THEN LET raw == o.ret.f.data.a
                list == driverStatuses'
            IN /\ Len(list) = Cardinality({i \in DOMAIN raw : HasId(raw[i])})
               /\ \A i \in DOMAIN raw :
                    HasId(raw[i]) =>
                      \E j \in DOMAIN list : list[j] = NormalizeDriver(raw[i], now')
               /\ \A j \in DOMAIN list :
                    \E i \in DOMAIN raw :
                      HasId(raw[i]) /\ list[j] = NormalizeDriver(raw[i], now')
               /\ \A j, k \in DOMAIN list :
                    j < k => NameRank(list[j].name) <= NameRank(list[k].name)
       ELSE driverStatuses' = driverStatuses]_vars

\* a silent poll brought four entries, two of them with an id: the list
\* shows those two, Ana before Bruno
C29_Witness ==
  /\ ev.kind = "settle" /\ ev.silent
  /\ ev.outcome = Ret(JObj([success |-> JBool(TRUE), data |-> LocationsC]))
  /\ Len(driverStatuses) = 2
  /\ driverStatuses[1].name = <<"Ana">> /\ driverStatuses[1].id = <<"d2">>
  /\ driverStatuses[2].name = <<"Bruno">>

-----------------------------------------------------------------------------
(* The loading flag of the driver list.  Every call of                     *)
(* getCurrentLocations settles (request() resolves whatever fetch does),   *)
(* so each fetch in flight is given weak fairness of its own.              *)

SpecPollLive ==
  /\ SpecPoll
  /\ \A i \in 1..MaxFetches :
       WF_vars(\E f \in fetches, outcome \in LocationOutcomes :
                 f.id = i /\ LoadSettle(f, outcome))

\* a fetch that was started without silent is in flight
LoudInFlight == \E f \in fetches : ~f.silent

\* C30: the loading flag becomes true only in a step that starts a
\* non-silent fetch (the mount or the refresh button, which is disabled
\* while the flag is true) and is false after the step in which that fetch
\* settles, whatever the outcome; a silent fetch never changes it; the
\* flag is true only while a non-silent fetch is in flight and is
\* eventually false again; while the dashboard is mounted at most one
\* polling timer is active.
C30_LoadingFlag ==
  /\ [][/\ (driversLoading' /\ ~driversLoading) =>
             (ev' # ev /\ ev'.kind \in {"mount", "refresh"})
        /\ (ev' # ev /\ ev'.kind = "refresh") => ~driversLoading
        /\ (ev' # ev /\ ev'.kind = "timer") => driversLoading' = driversLoading
        /\ (Settled /\ ~ev'.silent) => ~driversLoading'
        /\ (Settled /\ ev'.silent) => driversLoading' = driversLoading]_vars
  /\ [](driversLoading => LoudInFlight)
  /\ [](life = "mounted" => Cardinality(timers) <= 1)
  /\ driversLoading ~> ~driversLoading

\* the refresh button was used while a silent fetch of the timer was in
\* flight, and the manual fetch has thrown: the flag is false again with
\* the silent fetch still in flight
C30_Witness ==
  /\ ev.kind = "settle" /\ ~ev.silent /\ ev.outcome.threw
  /\ ev.id = 3
  /\ fetches = {[id |-> 2, silent |-> TRUE]}
  /\ ~driversLoading
  /\ life = "mounted" /\ Cardinality(timers) = 1

=============================================================================
